---- MODULE Spec2Model ----
(***************************************************************************)
(* Guild dashboard: the /api/upload reconciliation handler                 *)
(* (server/routes.ts, server/storage.ts, shared/schema.ts), the Raider.IO  *)
(* sync (server/raiderio.ts, here src/unnamed/part_001): guild-run         *)
(* detection and run ingestion with server/modules/run-deduplicator.ts     *)
(* and server/modules/stats-aggregator.ts, and the periodic Warcraft Logs  *)
(* sync (server/warcraftlogs.ts).                                          *)
(*                                                                         *)
(* Conventions.  A JavaScript string that the code takes apart (a          *)
(* "Name-Realm" key, a realm name, a run URL) is a tuple of one-character  *)
(* strings, so that split/join/replace/toLowerCase are computed.  Opaque   *)
(* strings (session ids, enum values) are TLA+ strings, with NULL for      *)
(* null/undefined.  A nullable number is None (<<>>) or Some(n) (<<n>>).   *)
(* A JSON object is a function whose DOMAIN is the set of keys present.    *)
(***************************************************************************)
EXTENDS Integers, Sequences, FiniteSets, TLC

VARIABLES
    players,            \* table players: a set of rows
    guildSettings,      \* the single guild_settings row
    uploaderStatuses,   \* table uploader_statuses: uploaderId -> row
    activitySnapshots,  \* table activity_snapshots: a set of rows
    req,                \* the request the upload handler served last
    res,                \* the response it sent
    accepted,           \* history: uploaderId -> index of the last batch of its
                        \* running session that the handler accepted
    guildMythicRuns,    \* table guild_mythic_runs: a sequence of rows
    activityEvents,     \* table activity_events: a sequence of rows
    guildPlayerCache,   \* module-level Map of raiderio.ts
    guildRunsFound,     \* syncState.guildRunsFound
    isRunning,          \* syncState.isRunning
    pass,               \* the sync passes in flight: pass id -> frame
    mythicRuns,         \* table mythic_runs: a sequence of rows
    playerStats,        \* the aggregate columns of the players rows: player id -> columns
    upstream,           \* the runs the upstream service returns for a player
    sync,               \* the run-ingesting sync calls: call id -> frame
    syncState,          \* syncState.playersUpdated / playersSkipped / playersFailed
    dedup,              \* a RunDeduplicator instance
    dedupExisting,      \* the runs it was constructed from
    dedupMarked,        \* history: the runs markAsSeen was called with
    wclIsRunning,       \* wclSyncState.isRunning
    wclSyncIntervalId,  \* whether wclSyncIntervalId is set
    wclCalls,           \* the calls of runWCLSync: call id -> where the call is
    countedLevels,      \* history: player id -> the key levels of the runs that
                        \* updatePlayerStats counted for the player
    syncIntervalId,     \* raiderio.ts syncIntervalId: 0 for null, or a timer handle
    timers,             \* the interval timers installed in the runtime
    periodicActive,     \* syncState.periodicActive
    nextSyncScheduled,  \* syncState.nextSyncScheduled
    callers,            \* the syncNextBatch calls made by the periodic sync:
                        \* call id -> who awaits the call, and whether the
                        \* reaction to its promise has run
    rosterSyncs,        \* the active roster by lastRioSync: hour -> number of
                        \* active players last synced in that hour (0: never)
    currentBatch,       \* syncState.currentBatch
    clock,              \* the hour of the wall clock
    batchTaken          \* history: hour -> how many players of that hour the last
                        \* syncNextBatch selected, and how many it left out

uploadVars == <<players, guildSettings, uploaderStatuses, activitySnapshots, req, res,
                accepted>>
guildVars == <<guildMythicRuns, activityEvents, guildPlayerCache, guildRunsFound, isRunning,
               pass>>
schedVars == <<syncIntervalId, timers, periodicActive, nextSyncScheduled, callers>>
rotationVars == <<rosterSyncs, currentBatch, clock, batchTaken>>
ingestVars == <<mythicRuns, playerStats, upstream, sync, syncState, countedLevels,
                schedVars, rotationVars>>
dedupVars == <<dedup, dedupExisting, dedupMarked>>
wclVars == <<wclIsRunning, wclSyncIntervalId, wclCalls>>
vars == <<players, guildSettings, uploaderStatuses, activitySnapshots, req, res, accepted,
          guildMythicRuns, activityEvents, guildPlayerCache, guildRunsFound, isRunning, pass,
          mythicRuns, playerStats, upstream, sync, syncState,
          dedup, dedupExisting, dedupMarked, wclIsRunning, wclSyncIntervalId, wclCalls,
          countedLevels, syncIntervalId, timers, periodicActive, nextSyncScheduled, callers,
          rosterSyncs, currentBatch, clock, batchTaken>>

\* ------------------------------------------------------------------ bounds

\* largest batch_index an uploader sends
MaxBatchIndex == 3
\* cap of guild_settings.uploadSessionProcessedCount (an unbounded counter)
MaxProcessed == 3
\* number of sync passes that a behaviour of the guild-run model starts
MaxPasses == 2
\* number of run-ingesting sync calls that a behaviour makes
MaxSyncCalls == 2
\* number of runWCLSync calls that a behaviour makes
MaxWclCalls == 3
\* the last hour of the wall clock in the batch-rotation model
MaxHours == 4
\* cap of the players that the passes of the batch-rotation model process
\* (syncState.playersUpdated/Skipped/Failed are unbounded counters)
MaxSynced == 1200

\* ---------------------------------------------------------- program constants

\* deleteOldMythicRuns(player.id, 5)
KeepCount == 5
\* allRuns.slice(0, 10)
SliceLimit == 10
\* const BATCH_SIZE = 500
BATCH_SIZE == 500

\* ------------------------------------------------------------- null, option

NULL == "null"
None == <<>>
Some(v) == <<v>>
\* JavaScript  x ?? d  on a nullable number
OrElse(x, d) == IF x = None THEN d ELSE x[1]

EmptyObject == [k \in {} |-> TRUE]
\* The value v.  TLC keeps a function written with :> and @@, and a record,
\* with its keys in the order written and sorts them in place on first use;
\* a value that an action is given is held once for all TLC workers, so it is
\* compared with itself, which sorts it through and through, where it is built.
Given(v) == CHOOSE w \in {v} : w = w
Has(obj, k) == k \in DOMAIN obj
\* the object  { ...row, ...updates }
Merge(updates, row) ==
    [k \in DOMAIN updates \cup DOMAIN row |->
        IF k \in DOMAIN updates THEN updates[k] ELSE row[k]]

\* ---------------------------------------------------------------- strings

Dash == "-"
IndexOfFrom(s, c, i) ==
    IF \E j \in i..Len(s) : s[j] = c
    THEN CHOOSE j \in i..Len(s) : s[j] = c /\ \A k \in i..(j - 1) : s[k] # c
    ELSE 0
Includes(s, c) == IndexOfFrom(s, c, 1) # 0

\* String.prototype.split(sep) for a one-character separator
RECURSIVE Split(_, _)
Split(s, sep) ==
    LET i == IndexOfFrom(s, sep, 1)
    IN  IF i = 0 THEN <<s>>
        ELSE <<SubSeq(s, 1, i - 1)>> \o Split(SubSeq(s, i + 1, Len(s)), sep)

\* Array.prototype.join(sep)
RECURSIVE Join(_, _)
Join(parts, sep) ==
    IF parts = <<>> THEN <<>>
    ELSE IF Len(parts) = 1 THEN parts[1]
    ELSE parts[1] \o <<sep>> \o Join(Tail(parts), sep)

\* routes.ts parsePlayerName: "Name-Realm" -> {name, realm}
parsePlayerName(fullName, defaultRealm) ==
    IF Includes(fullName, Dash)
    THEN LET parts == Split(fullName, Dash)
         IN  [name |-> Head(parts), realm |-> Join(Tail(parts), Dash)]
    ELSE [name |-> fullName, realm |-> defaultRealm]

\* String.prototype.toUpperCase on the class names uploaders send
toUpperCase(s) ==
    CASE s = "mage" -> "MAGE"
      [] s = "Mage" -> "MAGE"
      [] s = "bard" -> "BARD"
      [] OTHER -> s

WOW_CLASS_MAP ==
    [c \in {"MAGE", "WARRIOR", "DRUID"} |->
        CASE c = "MAGE" -> "Mage" [] c = "WARRIOR" -> "Warrior" [] c = "DRUID" -> "Druid"]

\* routes.ts normalizeClass; addonClass = NULL for undefined
normalizeClass(addonClass) ==
    IF addonClass = NULL THEN "Warrior"
    ELSE IF toUpperCase(addonClass) \in DOMAIN WOW_CLASS_MAP
         THEN WOW_CLASS_MAP[toUpperCase(addonClass)]
         ELSE addonClass

\* ---------------------------------------------------------- storage: players

\* the columns of a players row the modelled code reads or writes
\* (shared/schema.ts players); the row's id is its position in the table,
\* which the (name, realm) pair determines while rows are made by upsertPlayer
PlayerId(row) == <<row.name, row.realm>>

PlayersNamed(P, name, realm) == {p \in P : p.name = name /\ p.realm = realm}

\* storage.getPlayerByName: the row, or undefined (here: no row, tested by
\* HasPlayer)
HasPlayer(P, name, realm) == PlayersNamed(P, name, realm) # {}
getPlayerByName(P, name, realm) == CHOOSE p \in PlayersNamed(P, name, realm) : TRUE

\* storage.createPlayer with the defaults upsertPlayer fills in
createPlayer(P, playerData) ==
    P \cup {[name |-> playerData.name,
             realm |-> playerData.realm,
             class |-> playerData.class,
             spec |-> IF Has(playerData, "spec") THEN playerData.spec ELSE NULL,
             race |-> IF Has(playerData, "race") THEN playerData.race ELSE NULL,
             level |-> IF Has(playerData, "level") THEN playerData.level ELSE 80,
             itemLevel |-> IF Has(playerData, "itemLevel") THEN playerData.itemLevel ELSE 0,
             mythicScore |-> IF Has(playerData, "mythicScore") THEN playerData.mythicScore ELSE 0,
             guildRank |-> IF Has(playerData, "guildRank") THEN playerData.guildRank ELSE "Member",
             messagesCount |-> IF Has(playerData, "messagesCount") THEN playerData.messagesCount ELSE 0,
             isActive |-> IF Has(playerData, "isActive") THEN playerData.isActive ELSE TRUE,
             lastSeen |-> None,
             lastMessage |-> NULL,
             lastMessageTime |-> None]}

\* storage.updatePlayer(id, updates)
updatePlayer(P, id, updates) ==
    {IF PlayerId(p) = id THEN Merge(updates, p) ELSE p : p \in P}

UpsertColumns ==
    {"spec", "race", "level", "itemLevel", "mythicScore", "guildRank", "messagesCount", "isActive"}

\* storage.upsertPlayer
upsertPlayer(P, playerData) ==
    IF HasPlayer(P, playerData.name, playerData.realm)
    THEN LET existing == getPlayerByName(P, playerData.name, playerData.realm)
             updates == [k \in DOMAIN playerData \cap UpsertColumns |-> playerData[k]]
         IN  IF DOMAIN updates # {} THEN updatePlayer(P, PlayerId(existing), updates) ELSE P
    ELSE createPlayer(P, playerData)

\* storage.updatePlayerLastSeen
updatePlayerLastSeen(P, name, realm, lastSeen) ==
    IF HasPlayer(P, name, realm)
    THEN updatePlayer(P, PlayerId(getPlayerByName(P, name, realm)), [lastSeen |-> Some(lastSeen)])
    ELSE P

\* variant of storage.markAllPlayersInactive that marks nobody
markNoPlayerInactive(P) == P

\* storage.markAllPlayersInactive: the new table
markAllPlayersInactive(P) ==
    {IF p.isActive THEN [p EXCEPT !.isActive = FALSE] ELSE p : p \in P}

\* storage.deactivatePlayersByName: the new table; playerNames is a sequence
\* of {name, realm}
deactivatePlayersByName(P, playerNames) ==
    {IF p.isActive /\ \E i \in 1..Len(playerNames) :
            playerNames[i].name = p.name /\ playerNames[i].realm = p.realm
     THEN [p EXCEPT !.isActive = FALSE]
     ELSE p : p \in P}

\* its return value: the number of rows the updates returned
deactivatedCount(P, playerNames) ==
    Cardinality({p \in P : p.isActive /\ \E i \in 1..Len(playerNames) :
                    playerNames[i].name = p.name /\ playerNames[i].realm = p.realm})

\* --------------------------------------------------- storage: upload session

\* a timestamp taken by new Date(); no modelled code reads its value
NOW == "now"

\* storage.startUploadSession
startUploadSession(settings, sessionId) ==
    [settings EXCEPT !.currentUploadSession = sessionId,
                     !.uploadSessionStartedAt = NOW,
                     !.uploadSessionProcessedCount = 0]

\* storage.clearUploadSession
clearUploadSession(settings) ==
    [settings EXCEPT !.currentUploadSession = NULL,
                     !.uploadSessionStartedAt = NULL,
                     !.uploadSessionProcessedCount = 0,
                     !.lastUploadCompletedAt = NOW]

\* storage.incrementUploadProcessedCount
incrementUploadProcessedCount(settings, count) ==
    [settings EXCEPT !.uploadSessionProcessedCount = @ + count]

\* storage.getCurrentUploadSession(...).sessionId
getCurrentUploadSession(settings) == settings.currentUploadSession

\* ------------------------------------------------- storage: uploader status

\* the row  insert(uploaderStatuses).values({ uploaderId })  makes: every
\* other column at its default
NewUploaderStatus ==
    [lastSessionId |-> NULL,
     lastBatchIndex |-> None,
     expectedBatchIndex |-> None,
     status |-> "idle",
     totalBatches |-> None,
     lastError |-> None,
     lastPhase |-> NULL]

\* storage.ensureUploaderStatus: the table afterwards
ensureUploaderStatus(T, uploaderId) ==
    IF uploaderId \in DOMAIN T THEN T
    ELSE [u \in DOMAIN T \cup {uploaderId} |-> IF u = uploaderId THEN NewUploaderStatus ELSE T[u]]

\* storage.updateUploaderStatus: updates holds the keys whose value is not
\* undefined (sanitizeUpdate)
updateUploaderStatus(T, uploaderId, updates) ==
    LET T1 == ensureUploaderStatus(T, uploaderId)
    IN  [T1 EXCEPT ![uploaderId] = Merge(updates, @)]

\* one key of an update object, dropped when its value is undefined
Key(k, defined, v) == IF defined THEN k :> v ELSE EmptyObject

\* storage.markUploaderOutOfOrder; receivedBatchIndex is None for undefined
markUploaderOutOfOrder(T, uploaderId, expectedBatchIndex, receivedBatchIndex, sessionId, totalBatches, lastPhase) ==
    updateUploaderStatus(T, uploaderId,
        ("status" :> "out_of_order")
        @@ ("lastError" :> Some([message |-> "Out-of-order batch",
                                 expected |-> expectedBatchIndex,
                                 received |-> receivedBatchIndex]))
        @@ ("expectedBatchIndex" :> Some(expectedBatchIndex))
        @@ Key("lastBatchIndex", receivedBatchIndex # None, receivedBatchIndex)
        @@ Key("lastSessionId", sessionId # NULL, sessionId)
        @@ Key("totalBatches", totalBatches # None, totalBatches)
        @@ Key("lastPhase", lastPhase # NULL, lastPhase))

\* ------------------------------------------------ storage: activity snapshots

\* storage.createActivitySnapshot: one row per (dayOfWeek, hourOfDay, date);
\* timestamps are whole hours since the epoch, DATE() their day
DateOf(timestamp) == timestamp \div 24
createActivitySnapshot(S, snapshot) ==
    LET same == {s \in S : /\ s.dayOfWeek = snapshot.dayOfWeek
                           /\ s.hourOfDay = snapshot.hourOfDay
                           /\ DateOf(s.timestamp) = DateOf(snapshot.timestamp)}
    IN  IF same # {}
        THEN LET existing == CHOOSE s \in same : TRUE
             IN  (S \ {existing}) \cup
                 {[existing EXCEPT !.totalOnline = snapshot.totalOnline,
                                   !.timestamp = snapshot.timestamp]}
        ELSE S \cup {snapshot}

\* ------------------------------------------------------- the upload payload

\* the keys addonUploadSchema declares; z.object() drops every other key of
\* the body when it parses
SchemaKeys ==
    {"master_roster", "stats", "data", "upload_session_id", "is_final_batch",
     "batch_index", "total_batches", "batch_id", "session_phase", "sessionPhase",
     "roster_mode", "removed_members", "roster_summary", "reason",
     "rosterMode", "removedMembers", "rosterSummary"}

\* addonUploadSchema.parse(req.body) on a well-typed body
addonUploadSchema(body) == [k \in DOMAIN body \cap SchemaKeys |-> body[k]]

\* data.a || data.b || null  on string fields
FirstString(data, a, b) ==
    IF Has(data, a) /\ data[a] # "" THEN data[a]
    ELSE IF Has(data, b) /\ data[b] # "" THEN data[b]
    ELSE NULL

\* data.a ?? data.b ?? false  on boolean fields
FirstBoolean(data, a, b) ==
    IF Has(data, a) THEN data[a]
    ELSE IF Has(data, b) THEN data[b]
    ELSE FALSE

\* routes.ts 574-588: the normalised fields of the parsed payload
UploadFields(data) ==
    [rosterMode |-> FirstString(data, "roster_mode", "rosterMode"),
     sessionPhase |-> FirstString(data, "session_phase", "sessionPhase"),
     removedMembers |->
        IF Has(data, "removed_members") THEN data.removed_members
        ELSE IF Has(data, "removedMembers") THEN data.removedMembers
        ELSE <<>>,
     addUpdateOnly |-> FirstBoolean(data, "add_update_only", "addUpdateOnly"),
     confirmRemovals |-> FirstBoolean(data, "confirm_removals", "confirmRemovals"),
     baseRosterHash |-> FirstString(data, "base_roster_hash", "baseRosterHash"),
     batchIndex |-> IF Has(data, "batch_index") THEN Some(data.batch_index) ELSE None,
     totalBatches |-> IF Has(data, "total_batches") THEN Some(data.total_batches) ELSE None,
     incomingSessionId |-> IF Has(data, "upload_session_id") THEN data.upload_session_id ELSE NULL,
     isFinalBatch |-> Has(data, "is_final_batch") /\ data.is_final_batch = TRUE]

\* routes.ts 584
isBatchedUpload(f) ==
    /\ f.rosterMode # NULL
    /\ f.rosterMode # "no_change"
    /\ f.batchIndex # None
    /\ f.sessionPhase # NULL

\* variant of routes.ts 637-640 without the confirm_removals /
\* base_roster_hash conjunct
removalGuardUnconfirmed(f) ==
    f.removedMembers # <<>> /\ ~f.addUpdateOnly

\* routes.ts 637-640
removalGuardPassed(f) ==
    /\ Len(f.removedMembers) > 0
    /\ ~f.addUpdateOnly
    /\ (f.confirmRemovals \/ f.baseRosterHash # NULL)

\* routes.ts 632-635: a removed_members entry is a string or {name, reason}
parseRemovedMember(member, defaultRealm) ==
    LET fullName == IF member.kind = "string" THEN member.value ELSE member.name
    IN  parsePlayerName(fullName, defaultRealm)

playersToRemove(f, defaultRealm) ==
    [i \in 1..Len(f.removedMembers) |-> parseRemovedMember(f.removedMembers[i], defaultRealm)]

\* entry.k || d  on a number, and on a string, of a JSON object
NumOr(entry, k, d) == IF Has(entry, k) /\ entry[k] # 0 THEN entry[k] ELSE d
StrOr(entry, k, d) == IF Has(entry, k) /\ entry[k] # "" THEN entry[k] ELSE d

\* routes.ts 651-669 upsertRosterPlayers: the table after upserting the keys
\* of master_roster in order; roster is the sequence of <<key, entry>>
RECURSIVE upsertRoster(_, _, _)
upsertRoster(P, roster, defaultRealm) ==
    IF roster = <<>> THEN P
    ELSE LET fullName == roster[1][1]
             entry == roster[1][2]
             parsed == parsePlayerName(fullName, defaultRealm)
         IN  upsertRoster(
                 upsertPlayer(P, [name |-> parsed.name,
                                  realm |-> parsed.realm,
                                  class |-> normalizeClass(StrOr(entry, "class", NULL)),
                                  level |-> NumOr(entry, "lvl", 80),
                                  guildRank |-> StrOr(entry, "rank", "Member"),
                                  isActive |-> TRUE]),
                 Tail(roster), defaultRealm)

masterRoster(data) == IF Has(data, "master_roster") THEN data.master_roster ELSE <<>>

\* variant of routes.ts 651-669 that treats the batch as the whole roster:
\* a player the batch does not name ends inactive
upsertRosterPlayersOnly(P, data, defaultRealm) ==
    upsertRoster(markAllPlayersInactive(P), masterRoster(data), defaultRealm)

\* routes.ts 651-669
upsertRosterPlayers(P, data, defaultRealm) == upsertRoster(P, masterRoster(data), defaultRealm)
\* its return value
rosterCount(data) == Len(masterRoster(data))

\* ---------------------------------------------- the upload handler's branches

\* routes.ts 723-726 and 740-742: the table after the explicit removals
applyRemovals(P, f, defaultRealm) ==
    IF removalGuardPassed(f)
    THEN deactivatePlayersByName(P, playersToRemove(f, defaultRealm))
    ELSE P

removedCountOf(P, f, defaultRealm) ==
    IF removalGuardPassed(f)
    THEN deactivatedCount(P, playersToRemove(f, defaultRealm))
    ELSE 0

\* routes.ts 689-693: roster_mode = no_change
noChangeBranch(P, settings, f, data, defaultRealm) ==
    [players |-> P,
     settings |-> clearUploadSession(settings),
     playersProcessed |-> 0,
     removedCount |-> 0]

\* routes.ts 694-754: roster_mode = delta or full
rosterModeBranch(P, settings, f, data, defaultRealm) ==
    LET upserted == upsertRosterPlayers(P, data, defaultRealm)
    IN  CASE f.sessionPhase = "start" ->
               [players |-> upserted,
                settings |->
                   IF /\ f.incomingSessionId # NULL
                      /\ getCurrentUploadSession(settings) # f.incomingSessionId
                   THEN startUploadSession(settings, f.incomingSessionId)
                   ELSE settings,
                playersProcessed |-> rosterCount(data),
                removedCount |-> 0]
          [] f.sessionPhase = "chunk" ->
               [players |-> upserted,
                settings |-> settings,
                playersProcessed |-> rosterCount(data),
                removedCount |-> 0]
          [] f.sessionPhase = "final" ->
               [players |-> applyRemovals(upserted, f, defaultRealm),
                settings |-> clearUploadSession(settings),
                playersProcessed |-> rosterCount(data),
                removedCount |-> removedCountOf(upserted, f, defaultRealm)]
          [] OTHER ->
               [players |-> applyRemovals(upserted, f, defaultRealm),
                settings |-> IF f.isFinalBatch THEN clearUploadSession(settings) ELSE settings,
                playersProcessed |-> rosterCount(data),
                removedCount |-> removedCountOf(upserted, f, defaultRealm)]

\* routes.ts 755-779: no roster_mode
legacyBranch(P, settings, f, data, defaultRealm) ==
    LET newSession == /\ f.incomingSessionId # NULL
                      /\ f.incomingSessionId # getCurrentUploadSession(settings)
        marked == IF newSession THEN markAllPlayersInactive(P) ELSE P
        started == IF newSession THEN startUploadSession(settings, f.incomingSessionId)
                   ELSE settings
        counted == IF rosterCount(data) > 0
                   THEN incrementUploadProcessedCount(started, rosterCount(data))
                   ELSE started
    IN  [players |-> upsertRosterPlayers(marked, data, defaultRealm),
         settings |-> IF f.isFinalBatch /\ f.incomingSessionId # NULL
                      THEN clearUploadSession(counted)
                      ELSE counted,
         playersProcessed |-> rosterCount(data),
         removedCount |-> 0]

\* routes.ts 688-784: the roster reconciliation of one accepted request
reconcileRoster(P, settings, f, data, defaultRealm) ==
    LET b == CASE f.rosterMode = "no_change" -> noChangeBranch(P, settings, f, data, defaultRealm)
               [] f.rosterMode \in {"delta", "full"} ->
                    rosterModeBranch(P, settings, f, data, defaultRealm)
               [] OTHER -> legacyBranch(P, settings, f, data, defaultRealm)
    IN  IF f.rosterMode # NULL /\ b.playersProcessed > 0
        THEN [b EXCEPT !.settings = incrementUploadProcessedCount(@, b.playersProcessed)]
        ELSE b

\* routes.ts 796-801: the America/New_York wall clock of a timestamp (whole
\* hours since the epoch, UTC-5), as Monday-first day of week and hour
miamiTime(timestamp) == timestamp - 5
jsDay(hours) == ((hours \div 24) + 4) % 7
dayOfWeekOf(timestamp) ==
    IF jsDay(miamiTime(timestamp)) = 0 THEN 6 ELSE jsDay(miamiTime(timestamp)) - 1
hourOfDayOf(timestamp) == miamiTime(timestamp) % 24

\* routes.ts 812-829: the online players of one snapshot
RECURSIVE processOnline(_, _, _, _)
processOnline(P, online, timestamp, defaultRealm) ==
    IF online = <<>> THEN P
    ELSE LET parsed == parsePlayerName(online[1][1], defaultRealm)
             playerInfo == online[1][2]
             seen == updatePlayerLastSeen(P, parsed.name, parsed.realm, timestamp)
             next == IF StrOr(playerInfo, "class", NULL) # NULL \/ StrOr(playerInfo, "rank", NULL) # NULL
                     THEN upsertPlayer(seen, [name |-> parsed.name,
                                              realm |-> parsed.realm,
                                              class |-> normalizeClass(StrOr(playerInfo, "class", NULL)),
                                              level |-> NumOr(playerInfo, "level", 80),
                                              guildRank |-> StrOr(playerInfo, "rank", "Member"),
                                              isActive |-> TRUE])
                     ELSE seen
         IN  processOnline(next, Tail(online), timestamp, defaultRealm)

\* routes.ts 787-831: the stats array; a snapshot's iso is Some(hours) when
\* new Date(iso) is a valid date, None when it is not
RECURSIVE processStats(_, _, _, _)
processStats(P, S, stats, defaultRealm) ==
    IF stats = <<>> THEN [players |-> P, snapshots |-> S, snapshotsProcessed |-> 0]
    ELSE LET snapshot == stats[1]
         IN  IF snapshot.iso = None
             THEN processStats(P, S, Tail(stats), defaultRealm)
             ELSE LET timestamp == snapshot.iso[1]
                      rest == processStats(
                                  processOnline(P, snapshot.online, timestamp, defaultRealm),
                                  createActivitySnapshot(S, [timestamp |-> timestamp,
                                                             totalOnline |-> snapshot.onlineCount,
                                                             dayOfWeek |-> dayOfWeekOf(timestamp),
                                                             hourOfDay |-> hourOfDayOf(timestamp)]),
                                  Tail(stats), defaultRealm)
                  IN  [rest EXCEPT !.snapshotsProcessed = @ + 1]

\* the one-character string U+2014 that uploaders send for "no rank"
EmDash == "[em dash]"

\* routes.ts 842-867: the columns one chat entry overwrites
chatUpdates(chatEntry) ==
    Key("messagesCount", Has(chatEntry, "total"), IF Has(chatEntry, "total") THEN chatEntry.total ELSE 0)
    @@ Key("guildRank", StrOr(chatEntry, "rankName", NULL) \notin {NULL, EmDash},
           StrOr(chatEntry, "rankName", NULL))
    @@ Key("lastMessage", StrOr(chatEntry, "lastMessage", NULL) # NULL,
           StrOr(chatEntry, "lastMessage", NULL))
    @@ Key("lastMessageTime", NumOr(chatEntry, "lastSeenTS", 0) # 0,
           Some(NumOr(chatEntry, "lastSeenTS", 0) * 1000))

\* routes.ts 834-875: the chat activity counts
RECURSIVE processChat(_, _, _)
processChat(P, chat, defaultRealm) ==
    IF chat = <<>> THEN [players |-> P, chatDataProcessed |-> 0]
    ELSE LET parsed == parsePlayerName(chat[1][1], defaultRealm)
             updates == chatUpdates(chat[1][2])
         IN  IF HasPlayer(P, parsed.name, parsed.realm) /\ DOMAIN updates # {}
             THEN LET existing == getPlayerByName(P, parsed.name, parsed.realm)
                      rest == processChat(updatePlayer(P, PlayerId(existing), updates),
                                          Tail(chat), defaultRealm)
                  IN  [rest EXCEPT !.chatDataProcessed = @ + 1]
             ELSE processChat(P, Tail(chat), defaultRealm)

\* ------------------------------------------------------ the upload handler

\* routes.ts 594-604: a new session id resets the expected batch tracking
resetSession(T, uploaderId, f) ==
    IF f.incomingSessionId # NULL /\ f.incomingSessionId # T[uploaderId].lastSessionId
    THEN updateUploaderStatus(T, uploaderId,
             [lastSessionId |-> f.incomingSessionId,
              lastBatchIndex |-> Some(-1),
              expectedBatchIndex |-> Some(0),
              status |-> "processing",
              totalBatches |-> f.totalBatches,
              lastError |-> None,
              lastPhase |-> f.sessionPhase])
    ELSE T

\* routes.ts 608-610
expectedIndex(f, uploaderStatus) ==
    IF f.sessionPhase = "start" THEN 0
    ELSE OrElse(uploaderStatus.lastBatchIndex, -1) + 1

\* variant of routes.ts 878-897 that records the phase and the status of an
\* accepted batch but not its index
trackUploaderWithoutIndex(T, uploaderId, f, currentSessionId) ==
    LET completed == f.sessionPhase = "final" \/ f.isFinalBatch
    IN  updateUploaderStatus(T, uploaderId,
            [lastSessionId |-> currentSessionId,
             lastPhase |-> f.sessionPhase,
             status |-> IF completed THEN "idle" ELSE "processing",
             lastError |-> None])

\* routes.ts 878-897: uploader tracking after successful processing
trackUploader(T, uploaderId, f, currentSessionId) ==
    LET completed == f.sessionPhase = "final" \/ f.isFinalBatch
    IN  IF isBatchedUpload(f)
        THEN updateUploaderStatus(T, uploaderId,
                 [lastBatchIndex |-> f.batchIndex,
                  expectedBatchIndex |-> Some(IF completed THEN 0 ELSE f.batchIndex[1] + 1),
                  lastSessionId |-> currentSessionId,
                  lastPhase |-> f.sessionPhase,
                  totalBatches |-> f.totalBatches,
                  status |-> IF completed THEN "idle" ELSE "processing",
                  lastError |-> None])
        ELSE IF f.incomingSessionId # NULL
        THEN updateUploaderStatus(T, uploaderId,
                 [lastSessionId |-> currentSessionId,
                  lastPhase |-> f.sessionPhase,
                  totalBatches |-> f.totalBatches,
                  status |-> IF completed THEN "idle" ELSE "processing",
                  lastError |-> None])
        ELSE T

\* the history of accepted batches: a request with a new session id starts
\* the count of routes.ts 594-604 again at -1, a batch answered 200 is the
\* last accepted one, a rejected request is not
lastAcceptedIndex(A, uploaderId) ==
    IF uploaderId \in DOMAIN A THEN A[uploaderId] ELSE -1
recordAccepted(A, T, uploaderId, f, status) ==
    LET restarted == f.incomingSessionId # NULL /\ f.incomingSessionId # T[uploaderId].lastSessionId
        before == IF restarted THEN -1 ELSE lastAcceptedIndex(A, uploaderId)
    IN  (uploaderId :> (IF status = 200 /\ isBatchedUpload(f) THEN f.batchIndex[1] ELSE before)) @@ A

\* the response of the handler: its HTTP status and the fields of its body
Reply(status) ==
    [status |-> status, expectedBatchIndex |-> None, receivedBatchIndex |-> None,
     players |-> 0, removed |-> 0, snapshots |-> 0, chatData |-> 0]

\* settings?.realm || "Unknown"
Unknown == <<"U", "n", "k", "n", "o", "w", "n">>
defaultRealmOf(settings) == IF settings.realm # <<>> THEN settings.realm ELSE Unknown

\* routes.ts 549-929: POST /api/upload, one request served from its first
\* line to its response.  uploaderId is the identity the request resolves to
\* (routes.ts 556 and 563), apiKey the x-api-key header (NULL when absent)
Upload(uploaderId, apiKey, body) ==
    /\ req' = [uploaderId |-> uploaderId, apiKey |-> apiKey, body |-> body]
    /\ UNCHANGED guildVars
    /\ UNCHANGED <<ingestVars, dedupVars, wclVars>>
    /\ IF apiKey = NULL
       THEN /\ res' = Reply(401)
            /\ UNCHANGED <<players, guildSettings, uploaderStatuses, activitySnapshots, accepted>>
       ELSE IF guildSettings.uploadApiKey # apiKey
       THEN /\ res' = Reply(403)
            /\ UNCHANGED <<players, guildSettings, uploaderStatuses, activitySnapshots, accepted>>
       ELSE
       LET data == addonUploadSchema(body)
           defaultRealm == defaultRealmOf(guildSettings)
           f == UploadFields(data)
           ensured == ensureUploaderStatus(uploaderStatuses, uploaderId)
           currentSessionId == IF f.incomingSessionId # NULL THEN f.incomingSessionId
                               ELSE ensured[uploaderId].lastSessionId
           reset == resetSession(ensured, uploaderId, f)
           expected == expectedIndex(f, reset[uploaderId])
       IN  IF isBatchedUpload(f) /\ f.batchIndex[1] # expected
           THEN /\ uploaderStatuses' =
                       markUploaderOutOfOrder(reset, uploaderId, expected, f.batchIndex,
                                              currentSessionId, f.totalBatches, f.sessionPhase)
                /\ res' = [Reply(409) EXCEPT !.expectedBatchIndex = Some(expected),
                                             !.receivedBatchIndex = f.batchIndex]
                /\ accepted' = recordAccepted(accepted, ensured, uploaderId, f, 409)
                /\ UNCHANGED <<players, guildSettings, activitySnapshots>>
           ELSE IF /\ f.rosterMode # NULL
                   /\ f.rosterMode # "no_change"
                   /\ f.batchIndex # None
                   /\ f.sessionPhase = NULL
           THEN /\ uploaderStatuses' = reset
                /\ res' = Reply(400)
                /\ accepted' = recordAccepted(accepted, ensured, uploaderId, f, 400)
                /\ UNCHANGED <<players, guildSettings, activitySnapshots>>
           ELSE
           LET roster == reconcileRoster(players, guildSettings, f, data, defaultRealm)
               stats == processStats(roster.players, activitySnapshots,
                                     IF Has(data, "stats") THEN data.stats ELSE <<>>,
                                     defaultRealm)
               chat == processChat(stats.players,
                                   IF Has(data, "data") THEN data.data ELSE <<>>,
                                   defaultRealm)
           IN  /\ roster.settings.uploadSessionProcessedCount <= MaxProcessed
               /\ players' = chat.players
               /\ guildSettings' = roster.settings
               /\ activitySnapshots' = stats.snapshots
               /\ uploaderStatuses' = trackUploader(reset, uploaderId, f, currentSessionId)
               /\ accepted' = recordAccepted(accepted, ensured, uploaderId, f, 200)
               /\ res' = [Reply(200) EXCEPT !.players = roster.playersProcessed,
                                            !.removed = roster.removedCount,
                                            !.snapshots = stats.snapshotsProcessed,
                                            !.chatData = chat.chatDataProcessed]

\* ------------------------------------------- raiderio.ts: guild-run detector

Slash == "/"
Last(s) == s[Len(s)]

\* String.prototype.toLowerCase on the letters that occur
LowerChar(c) ==
    CASE c = "A" -> "a" [] c = "B" -> "b" [] c = "C" -> "c" [] c = "I" -> "i"
      [] c = "X" -> "x" [] c = "Z" -> "z" [] OTHER -> c
toLowerCase(s) == [i \in 1..Len(s) |-> LowerChar(s[i])]

\* the one-character strings U+00E1, U+00E9, U+00ED, U+00F3, U+00FA
AAcute == "[a acute]"
EAcute == "[e acute]"
IAcute == "[i acute]"
OAcute == "[o acute]"
UAcute == "[u acute]"

\* raiderio.ts normalizeRealm
RealmKept(c) == c \notin {"'", "-", " "}
Unaccent(c) ==
    CASE c = AAcute -> "a" [] c = EAcute -> "e" [] c = IAcute -> "i"
      [] c = OAcute -> "o" [] c = UAcute -> "u" [] OTHER -> c
normalizeRealm(realm) ==
    LET kept == SelectSeq(toLowerCase(realm), RealmKept)
    IN  [i \in 1..Len(kept) |-> Unaccent(kept[i])]

\* raiderio.ts generateRunKey: the last segment of the URL, else dungeon,
\* level and completion time
generateRunKey(run) ==
    IF run.url # <<>>
    THEN Last(Split(run.url, Slash))
    ELSE <<run.dungeon, "-", run.mythic_level, "-", run.completed_at>>

\* the key of guildPlayerCache
CacheKey(name, realm) == toLowerCase(name) \o <<Dash>> \o normalizeRealm(realm)

\* raiderio.ts findGuildPlayer: the cached player, or undefined (here: no
\* entry, tested by InCache)
InCache(cache, name, realm) == CacheKey(name, realm) \in DOMAIN cache
findGuildPlayer(cache, name, realm) == cache[CacheKey(name, realm)]

\* variant of refreshGuildPlayerCache without the isActive test
refreshGuildPlayerCacheOfAll(P) ==
    [k \in {CacheKey(p.name, p.realm) : p \in P} |->
        CHOOSE p \in P : CacheKey(p.name, p.realm) = k]

\* raiderio.ts refreshGuildPlayerCache: the new Map, of the active players;
\* of two players with one key the Map keeps the one getPlayers returns last
refreshGuildPlayerCache(P) ==
    LET active == {p \in P : p.isActive}
    IN  [k \in {CacheKey(p.name, p.realm) : p \in active} |->
            CHOOSE p \in active : CacheKey(p.name, p.realm) = k]

\* raiderio.ts 168-180: the guild members of a run's roster, in roster order
RECURSIVE guildMembersOf(_, _)
guildMembersOf(cache, roster) ==
    IF roster = <<>> THEN <<>>
    ELSE LET member == Head(roster)
             memberRealm == IF member.realm.name # <<>> THEN member.realm.name
                            ELSE member.realm.slug
         IN  (IF InCache(cache, member.name, memberRealm)
              THEN <<findGuildPlayer(cache, member.name, memberRealm)>>
              ELSE <<>>)
             \o guildMembersOf(cache, Tail(roster))

\* storage.getGuildMythicRunByKey: whether a row with the key exists
getGuildMythicRunByKey(G, runKey) == \E i \in 1..Len(G) : G[i].runKey = runKey

\* variant of storage.createGuildMythicRun on a table without the unique
\* constraint on run_key
createGuildMythicRunUnconstrained(G, insertRun) ==
    [ok |-> TRUE, rows |-> Append(G, insertRun)]

\* storage.createGuildMythicRun: the insert; it throws when a row with the
\* run_key exists (schema.ts: run_key is unique)
createGuildMythicRun(G, insertRun) ==
    IF \E i \in 1..Len(G) : G[i].runKey = insertRun.runKey
    THEN [ok |-> FALSE, rows |-> G]
    ELSE [ok |-> TRUE, rows |-> Append(G, insertRun)]

\* storage.createActivityEvent
createActivityEvent(E, event) == Append(E, event)

\* raiderio.ts 196-207: the row processGuildRuns inserts
guildRunRow(run, guildMembers) ==
    [runKey |-> generateRunKey(run),
     dungeon |-> run.dungeon,
     mythicLevel |-> run.mythic_level,
     completedAt |-> run.completed_at,
     guildPlayerNames |-> [i \in 1..Len(guildMembers) |-> guildMembers[i].name],
     totalGuildMembers |-> Len(guildMembers)]

\* raiderio.ts 211-225: the event processGuildRuns creates
guildRunEvent(run, guildMembers) ==
    [type |-> "guild_mythic_run",
     playerName |-> guildMembers[1].name,
     playerClass |-> guildMembers[1].class,
     title |-> <<"Completed", run.dungeon, run.mythic_level>>,
     value |-> run.mythic_level,
     timestamp |-> run.completed_at]

\* A sync pass in flight is a frame [kind, runs, i, pc, guildMembers]: the
\* entry point it came through, the runs fetchRunDetailsWithRoster returned,
\* the index of the run processGuildRuns is at, the await it is suspended at
\* and the guild members it found in that run's roster.
PassIds == 1..MaxPasses
Kinds == {"batch", "single", "deep"}
InFlight(p) == p \in DOMAIN pass /\ pass[p].pc \notin {"done", "thrown"}

\* the end of a pass, by return or by exception; the finally block of
\* syncNextBatch (raiderio.ts 596-598) releases isRunning
EndPass(p, pc) ==
    /\ pass' = [pass EXCEPT ![p].pc = pc]
    /\ isRunning' = IF pass[p].kind = "batch" THEN FALSE ELSE isRunning

\* syncNextBatch (raiderio.ts 537-547), triggerSinglePlayerSync (605-617) or
\* triggerDeepPlayerSync (626-638) is entered; runs is what the upstream
\* service will return for the player synced
StartPass(p, kind, runs) ==
    /\ p \notin DOMAIN pass
    /\ kind = "batch" => ~isRunning
    /\ isRunning' = IF kind = "batch" THEN TRUE ELSE isRunning
    /\ pass' = (p :> [kind |-> kind, runs |-> runs, i |-> 1, pc |-> "refresh",
                      guildMembers |-> <<>>]) @@ pass
    /\ UNCHANGED <<guildMythicRuns, activityEvents, guildPlayerCache, guildRunsFound>>
    /\ UNCHANGED uploadVars
    /\ UNCHANGED <<ingestVars, dedupVars, wclVars>>

\* await refreshGuildPlayerCache()
RefreshCache(p) ==
    /\ p \in DOMAIN pass /\ pass[p].pc = "refresh"
    /\ guildPlayerCache' = refreshGuildPlayerCache(players)
    /\ pass' = [pass EXCEPT ![p].pc = "next"]
    /\ UNCHANGED <<guildMythicRuns, activityEvents, guildRunsFound, isRunning>>
    /\ UNCHANGED uploadVars
    /\ UNCHANGED <<ingestVars, dedupVars, wclVars>>

\* raiderio.ts 165-186: the loop of processGuildRuns up to its first await
NextRun(p) ==
    /\ p \in DOMAIN pass /\ pass[p].pc = "next"
    /\ IF pass[p].i > Len(pass[p].runs)
       THEN EndPass(p, "done")
       ELSE LET run == pass[p].runs[pass[p].i]
                guildMembers == guildMembersOf(guildPlayerCache, run.roster)
            IN  /\ pass' = IF Len(run.roster) < 2 \/ Len(guildMembers) < 2
                           THEN [pass EXCEPT ![p].i = @ + 1]
                           ELSE [pass EXCEPT ![p].pc = "lookup",
                                             ![p].guildMembers = guildMembers]
                /\ UNCHANGED isRunning
    /\ UNCHANGED <<guildMythicRuns, activityEvents, guildPlayerCache, guildRunsFound>>
    /\ UNCHANGED uploadVars
    /\ UNCHANGED <<ingestVars, dedupVars, wclVars>>

\* raiderio.ts 189-190: await storage.getGuildMythicRunByKey(runKey)
LookupRun(p) ==
    /\ p \in DOMAIN pass /\ pass[p].pc = "lookup"
    /\ pass' = IF getGuildMythicRunByKey(guildMythicRuns,
                                         generateRunKey(pass[p].runs[pass[p].i]))
               THEN [pass EXCEPT ![p].i = @ + 1, ![p].pc = "next", ![p].guildMembers = <<>>]
               ELSE [pass EXCEPT ![p].pc = "create"]
    /\ UNCHANGED <<guildMythicRuns, activityEvents, guildPlayerCache, guildRunsFound, isRunning>>
    /\ UNCHANGED uploadVars
    /\ UNCHANGED <<ingestVars, dedupVars, wclVars>>

\* raiderio.ts 195-207: await storage.createGuildMythicRun(...); a rejected
\* insert throws out of processGuildRuns and of the pass
CreateRun(p) ==
    /\ p \in DOMAIN pass /\ pass[p].pc = "create"
    /\ LET created == createGuildMythicRun(
                          guildMythicRuns,
                          guildRunRow(pass[p].runs[pass[p].i], pass[p].guildMembers))
       IN  /\ guildMythicRuns' = created.rows
           /\ IF created.ok
              THEN pass' = [pass EXCEPT ![p].pc = "event"] /\ UNCHANGED isRunning
              ELSE EndPass(p, "thrown")
    /\ UNCHANGED <<activityEvents, guildPlayerCache, guildRunsFound>>
    /\ UNCHANGED uploadVars
    /\ UNCHANGED <<ingestVars, dedupVars, wclVars>>

\* raiderio.ts 211-229: await storage.createActivityEvent(...) and the
\* counters
CreateEvent(p) ==
    /\ p \in DOMAIN pass /\ pass[p].pc = "event"
    /\ activityEvents' = createActivityEvent(
                             activityEvents,
                             guildRunEvent(pass[p].runs[pass[p].i], pass[p].guildMembers))
    /\ guildRunsFound' = guildRunsFound + 1
    /\ pass' = [pass EXCEPT ![p].i = @ + 1, ![p].pc = "next", ![p].guildMembers = <<>>]
    /\ UNCHANGED <<guildMythicRuns, guildPlayerCache, isRunning>>
    /\ UNCHANGED uploadVars
    /\ UNCHANGED <<ingestVars, dedupVars, wclVars>>

\* -------------------------------------------- modules/run-deduplicator.ts

\* JavaScript truthiness of an optional string: undefined, null and "" are
\* falsy
Truthy(s) == s # NULL /\ s # ""

\* `${n}` of a natural number: its decimal digits
DigitChar(d) == <<"0", "1", "2", "3", "4", "5", "6", "7", "8", "9">>[d + 1]
RECURSIVE NumberToString(_)
NumberToString(n) ==
    IF n < 10 THEN <<DigitChar(n)>>
    ELSE NumberToString(n \div 10) \o <<DigitChar(n % 10)>>

\* a normalisation that keeps the time of day
normalizeTimestampToHour(timestamp) == timestamp

\* Date.UTC(year, month, day) of a timestamp: the midnight its UTC day starts
\* at (timestamps are whole hours since the epoch)
normalizeTimestamp(timestamp) == (timestamp \div 24) * 24

\* `${dungeon}-${keyLevel}-${normalizedMs}`
makeCompositeKey(dungeon, keyLevel, timestamp) ==
    dungeon \o <<Dash>> \o NumberToString(keyLevel) \o <<Dash>>
        \o NumberToString(normalizeTimestamp(timestamp))

\* new RunDeduplicator(existingRuns)
RunDeduplicator(existingRuns) ==
    [urlSet |-> {existingRuns[i].url :
                    i \in {j \in 1..Len(existingRuns) : Truthy(existingRuns[j].url)}},
     compositeKeySet |->
         {makeCompositeKey(existingRuns[i].dungeon, existingRuns[i].keyLevel,
                           existingRuns[i].timestamp) :
             i \in {j \in 1..Len(existingRuns) : ~Truthy(existingRuns[j].url)}}]

\* deduplicator.isNewRun(run)
isNewRun(deduplicator, run) ==
    LET compositeKey == makeCompositeKey(run.dungeon, run.mythic_level, run.completed_at)
        existsByUrl == Truthy(run.url) /\ run.url \in deduplicator.urlSet
        existsByCompositeKey == compositeKey \in deduplicator.compositeKeySet
    IN  ~existsByUrl /\ ~existsByCompositeKey

\* a markAsSeen that records composite keys only: a run with a URL leaves
\* no trace
markAsSeenByKey(deduplicator, run) ==
    IF Truthy(run.url)
    THEN deduplicator
    ELSE [deduplicator EXCEPT !.compositeKeySet =
            @ \cup {makeCompositeKey(run.dungeon, run.mythic_level, run.completed_at)}]

\* deduplicator.markAsSeen(run)
markAsSeen(deduplicator, run) ==
    LET compositeKey == makeCompositeKey(run.dungeon, run.mythic_level, run.completed_at)
    IN  IF Truthy(run.url)
        THEN [deduplicator EXCEPT !.urlSet = @ \cup {run.url}]
        ELSE [deduplicator EXCEPT !.compositeKeySet = @ \cup {compositeKey}]

\* --------------------------------------------- modules/stats-aggregator.ts

\* the aggregate columns of a players row (shared/schema.ts 166-174) and
\* its lastRioSync, at their defaults
NoStats ==
    [totalRunsTracked |-> 0, mostPlayedDungeon |-> NULL, runsInTime |-> 0,
     runsOverTime |-> 0, runsByLevelLow |-> 0, runsByLevelMid |-> 0,
     runsByLevelHigh |-> 0, runsByLevelElite |-> 0, highestKeyLevel |-> 0,
     lastRioSync |-> NULL]

\* brackets with the thresholds excluded
levelBucketBelow(keyLevel) ==
    IF keyLevel < 6 THEN "runsByLevelLow"
    ELSE IF keyLevel < 9 THEN "runsByLevelMid"
    ELSE IF keyLevel < 14 THEN "runsByLevelHigh"
    ELSE "runsByLevelElite"

\* stats-aggregator.ts 28-37
levelBucketOf(keyLevel) ==
    IF keyLevel <= 6 THEN "runsByLevelLow"
    ELSE IF keyLevel <= 9 THEN "runsByLevelMid"
    ELSE IF keyLevel <= 14 THEN "runsByLevelHigh"
    ELSE "runsByLevelElite"

\* stats-aggregator.ts 39-52: the dungeon counted most often among the
\* existing runs and the new one; of several with the highest count, the one
\* met first
mostPlayedOf(run, existingRuns) ==
    LET dungeons == [i \in 1..Len(existingRuns) |-> existingRuns[i].dungeon]
                        \o <<run.dungeon>>
        count(d) == Cardinality({i \in 1..Len(dungeons) : dungeons[i] = d})
        best == {i \in 1..Len(dungeons) :
                    \A j \in 1..Len(dungeons) : count(dungeons[j]) <= count(dungeons[i])}
    IN  dungeons[CHOOSE i \in best : \A j \in best : i <= j]

\* the later of the two numbers, whichever is greater
Latest(a, b) == b
\* Math.max
Max(a, b) == IF a >= b THEN a ELSE b

\* stats-aggregator.ts 25-63: the updates updatePlayerStats writes with
\* storage.updatePlayer, computed from the players row it read at line 22
updatePlayerStats(player, run, existingRuns) ==
    LET inTime == run.clearTimeMs <= run.parTimeMs
        levelBucket == levelBucketOf(run.keyLevel)
    IN  (levelBucket :> player[levelBucket] + 1)
        @@ [totalRunsTracked |-> player.totalRunsTracked + 1,
            mostPlayedDungeon |-> mostPlayedOf(run, existingRuns),
            runsInTime |-> player.runsInTime + (IF inTime THEN 1 ELSE 0),
            runsOverTime |-> player.runsOverTime + (IF inTime THEN 0 ELSE 1),
            highestKeyLevel |-> Max(player.highestKeyLevel, run.keyLevel)]

\* ------------------------------------------------- storage: mythic_runs

\* the rows of a player, and rank i of a row: the number of the player's
\* rows ORDER BY timestamp DESC puts before it (rows of one timestamp in
\* table order)
RowsOfPlayer(M, playerId) == {i \in 1..Len(M) : M[i].playerId = playerId}
RankOf(M, playerId, i) ==
    Cardinality({j \in RowsOfPlayer(M, playerId) :
                    \/ M[j].timestamp > M[i].timestamp
                    \/ M[j].timestamp = M[i].timestamp /\ j < i})

\* storage.getMythicRuns(playerId)
getMythicRuns(M, playerId) ==
    [k \in 1..Cardinality(RowsOfPlayer(M, playerId)) |->
        M[CHOOSE i \in RowsOfPlayer(M, playerId) : RankOf(M, playerId, i) = k - 1]]

\* storage.upsertMythicRun: one row per player, dungeon, key level and day;
\* a better score replaces the times and the score of the row, never its
\* url or timestamp
upsertMythicRun(M, insertRun) ==
    LET existing == {i \in 1..Len(M) : /\ M[i].playerId = insertRun.playerId
                                       /\ M[i].dungeon = insertRun.dungeon
                                       /\ M[i].keyLevel = insertRun.keyLevel
                                       /\ DateOf(M[i].timestamp) = DateOf(insertRun.timestamp)}
    IN  IF existing # {}
        THEN LET first == CHOOSE i \in existing : \A j \in existing : i <= j
             IN  IF insertRun.score > M[first].score
                 THEN [M EXCEPT ![first] = Merge([score |-> insertRun.score,
                                                  clearTimeMs |-> insertRun.clearTimeMs,
                                                  parTimeMs |-> insertRun.parTimeMs], @)]
                 ELSE M
        ELSE Append(M, insertRun)

\* a pruning that keeps the oldest rows
deleteNewMythicRuns(M, playerId, keepCount) ==
    LET n == Cardinality(RowsOfPlayer(M, playerId))
        kept == {i \in 1..Len(M) : \/ M[i].playerId # playerId
                                   \/ RankOf(M, playerId, i) >= n - keepCount}
        F[k \in 0..Len(M)] ==
            IF k = 0 THEN <<>>
            ELSE IF k \in kept THEN Append(F[k - 1], M[k]) ELSE F[k - 1]
    IN  F[Len(M)]

\* storage.deleteOldMythicRuns(playerId, keepCount)
deleteOldMythicRuns(M, playerId, keepCount) ==
    LET kept == {i \in 1..Len(M) : \/ M[i].playerId # playerId
                                   \/ RankOf(M, playerId, i) < keepCount}
        F[n \in 0..Len(M)] ==
            IF n = 0 THEN <<>>
            ELSE IF n \in kept THEN Append(F[n - 1], M[n]) ELSE F[n - 1]
    IN  F[Len(M)]

\* raiderio.ts 399-411: the row syncPlayer and triggerDeepPlayerSync store for
\* an upstream run (the times derived from clear_time_ms are left out)
mythicRunRow(playerId, run) ==
    [playerId |-> playerId, dungeon |-> run.dungeon, keyLevel |-> run.mythic_level,
     score |-> run.score, timestamp |-> run.completed_at, url |-> run.url,
     clearTimeMs |-> run.clear_time_ms, parTimeMs |-> run.par_time_ms]

\* raiderio.ts 416-427: the run as updatePlayerStats takes it, and the entry
\* pushed to existingRunsForStats
statsRun(run) ==
    [dungeon |-> run.dungeon, keyLevel |-> run.mythic_level,
     clearTimeMs |-> run.clear_time_ms, parTimeMs |-> run.par_time_ms]
statsEntry(run) ==
    [dungeon |-> run.dungeon, keyLevel |-> run.mythic_level,
     timestamp |-> run.completed_at, url |-> IF Truthy(run.url) THEN run.url ELSE NULL]

\* ------------------------------------------------ raiderio.ts: run ingestion

\* raiderio.ts 437-455: the active players, in an order the comparator's
\* Math.random() leaves open
getPlayersToSync(P) ==
    LET active == {PlayerId(p) : p \in {q \in P : q.isActive}}
    IN  {s \in [1..Cardinality(active) -> active] :
            \A i, j \in 1..Cardinality(active) : i # j => s[i] # s[j]}

\* raiderio.ts 375-389 and 683-694: the runs of the lists in turn, one per
\* URL; the deep sync also drops the runs without a URL
RECURSIVE UniqueByUrl(_, _, _)
UniqueByUrl(runs, seenUrls, needUrl) ==
    IF runs = <<>> THEN <<>>
    ELSE IF (needUrl /\ ~Truthy(Head(runs).url)) \/ Head(runs).url \in seenUrls
         THEN UniqueByUrl(Tail(runs), seenUrls, needUrl)
         ELSE <<Head(runs)>> \o UniqueByUrl(Tail(runs), seenUrls \cup {Head(runs).url}, needUrl)

\* the runs a call ingests: the first 10 of them in syncPlayer (line 396), all
\* of them in triggerDeepPlayerSync (line 728)
allRunsOf(kind, profile) ==
    LET allRuns == UniqueByUrl(profile.recent \o profile.best, {}, kind = "deep")
    IN  IF kind = "deep" \/ Len(allRuns) <= SliceLimit THEN allRuns
        ELSE SubSeq(allRuns, 1, SliceLimit)

\* A sync call is a frame: the entry point (kind: "batch" syncNextBatch,
\* "cycle" startRaiderIOSync, "single" triggerSinglePlayerSync, "deep"
\* triggerDeepPlayerSync), the players it syncs and the index j of the one it
\* is at, the result of each player done, the await it is suspended at (pc),
\* and the locals of the run loop: allRuns and the index i, the deduplicator,
\* existingRunsForStats and the players row updatePlayerStats read.
SyncIds == 1..MaxSyncCalls
IsBatchKind(kind) == kind \in {"batch", "cycle"}
SyncEnded(c) == c \in DOMAIN sync /\ sync[c].pc \in {"done", "thrown", "returned"}
SyncInFlight(c) == c \in DOMAIN sync /\ ~SyncEnded(c)
CurrentPlayer(f) == f.players[f.j]
NoLocals ==
    [runs |-> <<>>, i |-> 1, changed |-> FALSE, deduplicator |-> RunDeduplicator(<<>>),
     existingRunsForStats |-> <<>>, player |-> EmptyObject]

\* the counters of syncNextBatch (573-584) and syncBatch (464-474)
countResult(S, kind, result) ==
    IF ~IsBatchKind(kind) THEN S
    ELSE IF result = "updated" THEN [S EXCEPT !.playersUpdated = @ + 1]
    ELSE IF result = "skipped" THEN [S EXCEPT !.playersSkipped = @ + 1]
    ELSE [S EXCEPT !.playersFailed = @ + 1]

\* syncPlayer returned result for the current player: the loop of the call
\* goes to its next player, or the call returns
ReturnResult(c, result) ==
    LET f == sync[c]
        last == f.j = Len(f.players)
    IN  /\ sync' = [sync EXCEPT ![c] = Merge(NoLocals,
                        [f EXCEPT !.results = Append(@, result),
                                  !.j = @ + 1,
                                  !.pc = IF last THEN "done" ELSE "fetch"])]
        /\ syncState' = countResult(syncState, f.kind, result)
        /\ isRunning' = IF last /\ IsBatchKind(f.kind) THEN FALSE ELSE isRunning

\* an entry that does not look at isRunning
StartSyncUnguarded(c, kind, playerId) ==
    /\ c \notin DOMAIN sync
    /\ sync' = (c :> Merge(NoLocals,
                           [kind |-> kind,
                            players |-> IF IsBatchKind(kind) THEN <<>> ELSE <<playerId>>,
                            j |-> 1, results |-> <<>>, pc |-> "refresh"])) @@ sync
    /\ isRunning' = IF IsBatchKind(kind) THEN TRUE ELSE isRunning
    /\ UNCHANGED <<mythicRuns, playerStats, upstream, syncState>>
    /\ UNCHANGED <<guildMythicRuns, activityEvents, guildPlayerCache, guildRunsFound, pass>>
    /\ UNCHANGED <<uploadVars, dedupVars, wclVars, countedLevels, rotationVars>>

\* syncNextBatch (537-548), startRaiderIOSync (481-490),
\* triggerSinglePlayerSync (605-614) or triggerDeepPlayerSync (626-634) is
\* called; a batch call that finds isRunning set returns at once
StartSync(c, kind, playerId) ==
    /\ c \notin DOMAIN sync
    /\ LET skip == IsBatchKind(kind) /\ isRunning
       IN  /\ sync' = (c :> Merge(NoLocals,
                                  [kind |-> kind,
                                   players |-> IF IsBatchKind(kind) THEN <<>> ELSE <<playerId>>,
                                   j |-> 1, results |-> <<>>,
                                   pc |-> IF skip THEN "returned" ELSE "refresh"])) @@ sync
           /\ isRunning' = IF IsBatchKind(kind) THEN TRUE ELSE isRunning
           /\ syncState' = IF kind = "cycle" /\ ~skip
                           THEN [playersUpdated |-> 0, playersSkipped |-> 0,
                                 playersFailed |-> 0]
                           ELSE syncState
    /\ UNCHANGED <<mythicRuns, playerStats, upstream>>
    /\ UNCHANGED <<guildMythicRuns, activityEvents, guildPlayerCache, guildRunsFound, pass>>
    /\ UNCHANGED <<uploadVars, dedupVars, wclVars, countedLevels, rotationVars>>

\* await refreshGuildPlayerCache() (551, 459, 617, 638) and, in a batch
\* call, getPlayersToSync() (554, 495): at most BATCH_SIZE players, so all
\* of them are in the one batch, which is batch 1 of 1 (syncNextBatch
\* 555-561, also on an empty roster; startRaiderIOSync 499-500, whose loop
\* an empty roster does not enter)
RefreshSync(c) ==
    /\ c \in DOMAIN sync /\ sync[c].pc = "refresh"
    /\ guildPlayerCache' = refreshGuildPlayerCache(players)
    /\ \E batch \in getPlayersToSync(players) :
        LET chosen == IF IsBatchKind(sync[c].kind) THEN batch ELSE sync[c].players
        IN  /\ sync' = [sync EXCEPT ![c].players = chosen,
                                    ![c].pc = IF chosen = <<>> THEN "done" ELSE "fetch"]
            /\ isRunning' = IF chosen = <<>> THEN FALSE ELSE isRunning
            /\ currentBatch' = IF sync[c].kind = "batch" THEN 1
                               ELSE IF sync[c].kind = "cycle" /\ chosen # <<>> THEN 1
                               ELSE currentBatch
    /\ UNCHANGED <<mythicRuns, playerStats, upstream, syncState>>
    /\ UNCHANGED <<guildMythicRuns, activityEvents, guildRunsFound, pass>>
    /\ UNCHANGED <<uploadVars, dedupVars, wclVars, countedLevels, schedVars>>
    /\ UNCHANGED <<rosterSyncs, clock, batchTaken>>

\* the run loop goes to its next run, or leaves the loop for the pruning
afterRun(f) ==
    [f EXCEPT !.i = @ + 1, !.pc = IF f.i = Len(f.runs) THEN "prune" ELSE "upsert"]

\* fetchPlayerFromRaiderIO (97-123) or the fetch of the deep sync (646-661):
\* a profile whose data differs from the player's or not, no such character
\* (400/404), or an upstream error; without a profile the player has failed
Fetch(c) ==
    /\ c \in DOMAIN sync /\ sync[c].pc = "fetch"
    /\ \E outcome \in {"changed", "unchanged", "notfound", "error"} :
        IF outcome \in {"changed", "unchanged"}
        THEN /\ sync' = [sync EXCEPT ![c].pc = "update",
                                     ![c].changed = outcome = "changed"]
             /\ UNCHANGED <<playerStats, syncState, isRunning>>
        ELSE /\ ReturnResult(c, "failed")
             /\ playerStats' =
                    IF sync[c].kind = "deep" /\ outcome = "notfound"
                    THEN [playerStats EXCEPT ![CurrentPlayer(sync[c])].lastRioSync = NOW]
                    ELSE playerStats
    /\ UNCHANGED <<mythicRuns, upstream>>
    /\ UNCHANGED <<guildMythicRuns, activityEvents, guildPlayerCache, guildRunsFound, pass>>
    /\ UNCHANGED <<uploadVars, dedupVars, wclVars, countedLevels, schedVars, rotationVars>>

\* raiderio.ts 354-391 and 667-700: storage.updatePlayer with the profile
\* (of its columns, lastRioSync is kept here); syncPlayer returns "skipped"
\* for an unchanged profile; the runs to ingest are collected
Update(c) ==
    /\ c \in DOMAIN sync /\ sync[c].pc = "update"
    /\ playerStats' = [playerStats EXCEPT ![CurrentPlayer(sync[c])].lastRioSync = NOW]
    /\ LET f == sync[c]
           allRuns == allRunsOf(f.kind, upstream)
       IN  IF f.kind # "deep" /\ ~f.changed
           THEN ReturnResult(c, "skipped")
           ELSE IF allRuns = <<>>
           THEN ReturnResult(c, "updated")
           ELSE /\ sync' = [sync EXCEPT ![c].runs = allRuns, ![c].pc = "existing"]
                /\ UNCHANGED <<syncState, isRunning>>
    /\ UNCHANGED <<mythicRuns, upstream>>
    /\ UNCHANGED <<guildMythicRuns, activityEvents, guildPlayerCache, guildRunsFound, pass>>
    /\ UNCHANGED <<uploadVars, dedupVars, wclVars, countedLevels, schedVars, rotationVars>>

\* a persistence call of syncPlayer rejects (storage.updatePlayer at 355 or
\* 362, or at 667 in the deep sync): syncPlayer has no try/catch, so the
\* exception leaves the loop of syncNextBatch through its finally (596-598)
\* and leaves triggerSinglePlayerSync; startRaiderIOSync (523-527) and
\* triggerDeepPlayerSync (770-773) catch it and return
PersistFails(c) ==
    /\ c \in DOMAIN sync /\ sync[c].pc = "update"
    /\ sync' = [sync EXCEPT ![c].pc = IF sync[c].kind \in {"cycle", "deep"}
                                      THEN "done" ELSE "thrown"]
    /\ isRunning' = IF IsBatchKind(sync[c].kind) THEN FALSE ELSE isRunning
    /\ UNCHANGED <<mythicRuns, playerStats, upstream, syncState>>
    /\ UNCHANGED <<guildMythicRuns, activityEvents, guildPlayerCache, guildRunsFound, pass>>
    /\ UNCHANGED <<uploadVars, dedupVars, wclVars, countedLevels, schedVars, rotationVars>>

\* raiderio.ts 392-394 and 721-723: the stored runs of the player, the
\* deduplicator made of them and the copy kept for the statistics
Existing(c) ==
    /\ c \in DOMAIN sync /\ sync[c].pc = "existing"
    /\ LET stored == getMythicRuns(mythicRuns, CurrentPlayer(sync[c]))
       IN  sync' = [sync EXCEPT ![c].deduplicator = RunDeduplicator(stored),
                                ![c].existingRunsForStats = stored,
                                ![c].i = 1,
                                ![c].pc = "upsert"]
    /\ UNCHANGED <<mythicRuns, playerStats, upstream, syncState, isRunning>>
    /\ UNCHANGED <<guildMythicRuns, activityEvents, guildPlayerCache, guildRunsFound, pass>>
    /\ UNCHANGED <<uploadVars, dedupVars, wclVars, countedLevels, schedVars, rotationVars>>

\* raiderio.ts 397-415 and 729-747: isNewRun, upsertMythicRun, markAsSeen
Upsert(c) ==
    /\ c \in DOMAIN sync /\ sync[c].pc = "upsert"
    /\ LET f == sync[c]
           run == f.runs[f.i]
           seen == [f EXCEPT !.deduplicator = markAsSeen(@, run)]
       IN  /\ mythicRuns' = upsertMythicRun(mythicRuns, mythicRunRow(CurrentPlayer(f), run))
           /\ sync' = [sync EXCEPT ![c] = IF isNewRun(f.deduplicator, run)
                                          THEN [seen EXCEPT !.pc = "statsRead"]
                                          ELSE afterRun(seen)]
    /\ UNCHANGED <<playerStats, upstream, syncState, isRunning>>
    /\ UNCHANGED <<guildMythicRuns, activityEvents, guildPlayerCache, guildRunsFound, pass>>
    /\ UNCHANGED <<uploadVars, dedupVars, wclVars, countedLevels, schedVars, rotationVars>>

\* stats-aggregator.ts 22-23: await storage.getPlayer(playerId)
StatsRead(c) ==
    /\ c \in DOMAIN sync /\ sync[c].pc = "statsRead"
    /\ LET f == sync[c]
       IN  sync' = [sync EXCEPT ![c] =
                IF CurrentPlayer(f) \in DOMAIN playerStats
                THEN [f EXCEPT !.player = playerStats[CurrentPlayer(f)], !.pc = "statsWrite"]
                ELSE afterRun([f EXCEPT !.existingRunsForStats =
                                            Append(@, statsEntry(f.runs[f.i]))])]
    /\ UNCHANGED <<mythicRuns, playerStats, upstream, syncState, isRunning>>
    /\ UNCHANGED <<guildMythicRuns, activityEvents, guildPlayerCache, guildRunsFound, pass>>
    /\ UNCHANGED <<uploadVars, dedupVars, wclVars, countedLevels, schedVars, rotationVars>>

\* stats-aggregator.ts 25-63: await storage.updatePlayer(playerId, ...) with
\* the counters computed from the row read before; then raiderio.ts 422-427
StatsWrite(c) ==
    /\ c \in DOMAIN sync /\ sync[c].pc = "statsWrite"
    /\ LET f == sync[c]
           run == f.runs[f.i]
       IN  /\ playerStats' =
                [playerStats EXCEPT ![CurrentPlayer(f)] =
                    Merge(updatePlayerStats(f.player, statsRun(run), f.existingRunsForStats), @)]
           /\ countedLevels' =
                [countedLevels EXCEPT ![CurrentPlayer(f)] = @ \cup {run.mythic_level}]
           /\ sync' = [sync EXCEPT ![c] =
                afterRun([f EXCEPT !.existingRunsForStats = Append(@, statsEntry(run)),
                                   !.player = EmptyObject])]
    /\ UNCHANGED <<mythicRuns, upstream, syncState, isRunning>>
    /\ UNCHANGED <<guildMythicRuns, activityEvents, guildPlayerCache, guildRunsFound, pass>>
    /\ UNCHANGED <<uploadVars, dedupVars, wclVars, schedVars, rotationVars>>

\* raiderio.ts 431-434 and 765-769: deleteOldMythicRuns(player.id, 5), and
\* the player is done
Prune(c) ==
    /\ c \in DOMAIN sync /\ sync[c].pc = "prune"
    /\ mythicRuns' = deleteOldMythicRuns(mythicRuns, CurrentPlayer(sync[c]), KeepCount)
    /\ ReturnResult(c, "updated")
    /\ UNCHANGED <<playerStats, upstream>>
    /\ UNCHANGED <<guildMythicRuns, activityEvents, guildPlayerCache, guildRunsFound, pass>>
    /\ UNCHANGED <<uploadVars, dedupVars, wclVars, countedLevels, schedVars, rotationVars>>

\* ------------------------------------------- raiderio.ts: periodic sync

\* await refreshGuildPlayerCache() rejects (storage.getPlayers at 237): in
\* syncNextBatch the call is at line 551, before the try block whose finally
\* clears isRunning (553-598), so the exception leaves the function with
\* isRunning set; in startRaiderIOSync (459 through 508) and in
\* triggerDeepPlayerSync (638) it is caught, triggerSinglePlayerSync (617)
\* lets it through
RefreshFails(c) ==
    /\ c \in DOMAIN sync /\ sync[c].pc = "refresh"
    /\ sync' = [sync EXCEPT ![c].pc = IF sync[c].kind \in {"cycle", "deep"}
                                      THEN "done" ELSE "thrown"]
    /\ isRunning' = IF sync[c].kind = "cycle" THEN FALSE ELSE isRunning
    /\ UNCHANGED <<mythicRuns, playerStats, upstream, syncState>>
    /\ UNCHANGED <<guildMythicRuns, activityEvents, guildPlayerCache, guildRunsFound, pass>>
    /\ UNCHANGED <<uploadVars, dedupVars, wclVars, countedLevels, schedVars, rotationVars>>

\* A promise reaction runs before the next task of the event loop: while the
\* call a reaction waits for has ended and the reaction has not run, no timer
\* fires and no request is served.
NoReactionPending ==
    \A c \in DOMAIN callers : callers[c].reacted \/ ~SyncEnded(c)

\* startPeriodicSync without the test of syncIntervalId
startPeriodicSyncUnguarded(c) ==
    /\ NoReactionPending
    /\ periodicActive' = TRUE
    /\ StartSync(c, "batch", <<>>)
    /\ callers' = (c :> [by |-> "initial", reacted |-> FALSE]) @@ callers
    /\ timers' = timers \cup {c}
    /\ syncIntervalId' = c
    /\ UNCHANGED nextSyncScheduled

\* raiderio.ts 778-804: startPeriodicSync returns at once when the interval
\* is set; else it sets periodicActive, calls syncNextBatch (which runs to
\* its first await) and installs the interval, whose handle is here the
\* number of that call
startPeriodicSync(c) ==
    /\ NoReactionPending
    /\ IF syncIntervalId # 0
       THEN UNCHANGED vars
       ELSE /\ periodicActive' = TRUE
            /\ StartSync(c, "batch", <<>>)
            /\ callers' = (c :> [by |-> "initial", reacted |-> FALSE]) @@ callers
            /\ timers' = timers \cup {c}
            /\ syncIntervalId' = c
            /\ UNCHANGED nextSyncScheduled

\* raiderio.ts 793-796: an installed interval fires; its callback clears
\* nextSyncScheduled and calls syncNextBatch
PeriodicTick(c) ==
    /\ NoReactionPending
    /\ timers # {}
    /\ nextSyncScheduled' = NULL
    /\ StartSync(c, "batch", <<>>)
    /\ callers' = (c :> [by |-> "tick", reacted |-> FALSE]) @@ callers
    /\ UNCHANGED <<syncIntervalId, timers, periodicActive>>

\* raiderio.ts 806-814
stopPeriodicSync ==
    /\ NoReactionPending
    /\ syncIntervalId # 0
    /\ timers' = timers \ {syncIntervalId}
    /\ syncIntervalId' = 0
    /\ periodicActive' = FALSE
    /\ nextSyncScheduled' = NULL
    /\ UNCHANGED callers
    /\ UNCHANGED <<mythicRuns, playerStats, upstream, sync, syncState, countedLevels>>
    /\ UNCHANGED <<uploadVars, guildVars, dedupVars, wclVars, rotationVars>>

\* raiderio.ts 787-791 and 797-802: the promise of syncNextBatch has settled;
\* fulfilled (the pass is done, or the call returned at once), the reaction
\* sets nextSyncScheduled; rejected, the interval callback logs the error and
\* the initial call has no handler
Settle(c) ==
    /\ c \in DOMAIN callers /\ ~callers[c].reacted /\ SyncEnded(c)
    /\ callers' = [callers EXCEPT ![c].reacted = TRUE]
    /\ nextSyncScheduled' = IF sync[c].pc = "thrown" THEN nextSyncScheduled ELSE NOW
    /\ UNCHANGED <<syncIntervalId, timers, periodicActive>>
    /\ UNCHANGED <<mythicRuns, playerStats, upstream, sync, syncState, countedLevels>>
    /\ UNCHANGED <<uploadVars, guildVars, dedupVars, wclVars, rotationVars>>

\* ----------------------------------------- raiderio.ts: profile comparison

\* An upstream profile (RaiderIOProfile) is an object with the keys the
\* response carries: score (mythic_plus_scores_by_season[0].scores.all) and
\* item_level_equipped in tenths, class, active_spec_name, race,
\* thumbnail_url.  Math.round of a number given in tenths:
Round(tenths) == (tenths + 5) \div 10
\* x || 0  and  x || ""  for a key of the profile
NumberOrZero(profile, k) == IF Has(profile, k) THEN profile[k] ELSE 0
StringOrEmpty(profile, k) == IF Has(profile, k) /\ Truthy(profile[k]) THEN profile[k] ELSE ""

\* raiderio.ts 248-267
hasPlayerDataChanged(player, profile) ==
    LET newScore == Round(NumberOrZero(profile, "score"))
        newItemLevel == Round(NumberOrZero(profile, "item_level_equipped"))
        newSpec == StringOrEmpty(profile, "active_spec_name")
        newRace == StringOrEmpty(profile, "race")
        newClass == StringOrEmpty(profile, "class")
        newThumbnail == StringOrEmpty(profile, "thumbnail_url")
    IN  \/ player.mythicScore # newScore
        \/ player.itemLevel # newItemLevel
        \/ player.spec # newSpec
        \/ player.race # newRace
        \/ player.class # newClass
        \/ player.avatarUrl # newThumbnail

\* raiderio.ts 359-370: the object given to storage.updatePlayer; a key
\* whose value is undefined is not written (storage.ts 157-163)
profileUpdates(profile) ==
    ("mythicScore" :> Round(NumberOrZero(profile, "score")))
    @@ ("itemLevel" :> Round(NumberOrZero(profile, "item_level_equipped")))
    @@ (IF Has(profile, "class") THEN "class" :> profile.class ELSE EmptyObject)
    @@ (IF Has(profile, "active_spec_name") THEN "spec" :> profile.active_spec_name
        ELSE EmptyObject)
    @@ (IF Has(profile, "race") THEN "race" :> profile.race ELSE EmptyObject)
    @@ ("avatarUrl" :> IF Has(profile, "thumbnail_url") /\ Truthy(profile.thumbnail_url)
                       THEN profile.thumbnail_url ELSE NULL)
    @@ ("lastRioSync" :> NOW)

\* raiderio.ts 605-621 with 322-370, for a player whose profile lists no run:
\* triggerSinglePlayerSync from its call to its return.  The fetch returns the
\* profile the upstream service has now, or null (97-123) and the player has
\* failed.  The frame of the call keeps the profile it fetched.
SyncProfile(c, playerId) ==
    /\ c \notin DOMAIN sync
    /\ playerId \in DOMAIN playerStats
    /\ \E found \in BOOLEAN :
        LET player == playerStats[playerId]
            changed == hasPlayerDataChanged(player, upstream.profile)
            result == IF ~found THEN "failed" ELSE IF changed THEN "updated" ELSE "skipped"
        IN  /\ playerStats' =
                 [playerStats EXCEPT ![playerId] =
                     IF ~found THEN player
                     ELSE IF changed THEN Merge(profileUpdates(upstream.profile), player)
                     ELSE [player EXCEPT !.lastRioSync = NOW]]
            /\ sync' = (c :> Merge(NoLocals,
                                   [kind |-> "single", players |-> <<playerId>>, j |-> 2,
                                    results |-> <<result>>, pc |-> "done",
                                    profile |-> IF found THEN upstream.profile
                                                ELSE EmptyObject,
                                    changed |-> found /\ changed])) @@ sync
    /\ guildPlayerCache' = refreshGuildPlayerCache(players)
    /\ UNCHANGED <<mythicRuns, upstream, syncState, isRunning>>
    /\ UNCHANGED <<guildMythicRuns, activityEvents, guildRunsFound, pass>>
    /\ UNCHANGED <<uploadVars, dedupVars, wclVars, countedLevels, schedVars, rotationVars>>

\* ------------------------------------------------ warcraftlogs.ts: WCL sync

\* A call of runWCLSync is at "settings" (awaiting storage.getGuildSettings,
\* line 453), at "sync" (inside syncRaidProgress, 462-468) or has returned:
\* "busy" (null at 448-451), "skipped" (null at 454-457) or "done".
WclIds == 1..MaxWclCalls

\* warcraftlogs.ts 447-453: runWCLSync is called and runs to its first await
runWCLSync(c) ==
    /\ c \notin DOMAIN wclCalls
    /\ wclCalls' = (c :> IF wclIsRunning THEN "busy" ELSE "settings") @@ wclCalls
    /\ UNCHANGED wclIsRunning

\* warcraftlogs.ts 492-522: startPeriodicWCLSync sets the interval and makes
\* the initial call
startPeriodicWCLSync(c) ==
    /\ ~wclSyncIntervalId
    /\ wclSyncIntervalId' = TRUE
    /\ runWCLSync(c)
    /\ UNCHANGED <<uploadVars, guildVars, ingestVars, dedupVars>>

\* warcraftlogs.ts 510-521: the interval fires
WclTick(c) ==
    /\ wclSyncIntervalId
    /\ runWCLSync(c)
    /\ UNCHANGED wclSyncIntervalId
    /\ UNCHANGED <<uploadVars, guildVars, ingestVars, dedupVars>>

\* warcraftlogs.ts 524-532
stopPeriodicWCLSync ==
    /\ wclSyncIntervalId
    /\ wclSyncIntervalId' = FALSE
    /\ UNCHANGED <<wclIsRunning, wclCalls>>
    /\ UNCHANGED <<uploadVars, guildVars, ingestVars, dedupVars>>

\* warcraftlogs.ts 453-462: the settings arrive; without credentials the
\* call returns null, with them it sets isRunning and enters syncRaidProgress
WclSettings(c) ==
    /\ c \in DOMAIN wclCalls /\ wclCalls[c] = "settings"
    /\ \E credentials \in BOOLEAN :
        /\ wclCalls' = [wclCalls EXCEPT ![c] = IF credentials THEN "sync" ELSE "skipped"]
        /\ wclIsRunning' = IF credentials THEN TRUE ELSE wclIsRunning
    /\ UNCHANGED wclSyncIntervalId
    /\ UNCHANGED <<uploadVars, guildVars, ingestVars, dedupVars>>

\* warcraftlogs.ts 462-489: syncRaidProgress returns or throws; the finally
\* block clears isRunning
WclSyncEnds(c) ==
    /\ c \in DOMAIN wclCalls /\ wclCalls[c] = "sync"
    /\ wclCalls' = [wclCalls EXCEPT ![c] = "done"]
    /\ wclIsRunning' = FALSE
    /\ UNCHANGED wclSyncIntervalId
    /\ UNCHANGED <<uploadVars, guildVars, ingestVars, dedupVars>>

\* ----------------------------------------------------------------- inputs

\* "Al-Ix", "Bo-Ix", "Al" (no realm: the guild's realm is used) and the
\* guild's realm "Ix"
AlIx == <<"A", "l", "-", "I", "x">>
BoIx == <<"B", "o", "-", "I", "x">>
Al == <<"A", "l">>
Ix == <<"I", "x">>

ApiKey == "key-1"

\* the parts of a request body; an absent part adds no key
Field(k, v) == k :> v
OptStr(k, v) == IF v = NULL THEN EmptyObject ELSE k :> v
OptNum(k, v) == IF v = None THEN EmptyObject ELSE k :> v[1]
OptSeq(k, v) == IF v = None THEN EmptyObject ELSE k :> v[1]
Flag(k, v) == IF v THEN k :> TRUE ELSE EmptyObject

MageEntry == [class |-> "MAGE", lvl |-> 80]
OfficerEntry == [class |-> "mage", lvl |-> 70, rank |-> "Officer"]
RosterOf(names) == [i \in 1..Len(names) |-> <<names[i], MageEntry>>]

\* a removed_members entry: a string, or {name, reason}
RemovedString(s) == [kind |-> "string", value |-> s]
RemovedObject(s) == [kind |-> "object", name |-> s, reason |-> "left guild"]

\* a delta/full body
RosterModeBody(mode, phase, index, session, roster, removed, guard) ==
    Field("roster_mode", mode) @@ OptStr("session_phase", phase)
    @@ OptNum("batch_index", index) @@ OptStr("upload_session_id", session)
    @@ OptSeq("master_roster", roster) @@ OptSeq("removed_members", removed)
    @@ guard

Phases == {"start", "chunk", "final"}

\* a stats array of one snapshot with one online player, and a chat map of
\* one player
OnlineOfficer == [class |-> "mage", level |-> 70, rank |-> "Officer"]
OnlineBare == [level |-> 70]
StatsOf(name, playerInfo) ==
    << [iso |-> Some(10), onlineCount |-> 1, online |-> << <<name, playerInfo>> >>] >>
ChatOf(name, rankName) ==
    << <<name, [total |-> 2, rankName |-> rankName, lastMessage |-> "hi"]>> >>

\* what a batch carries: nothing, or a roster naming Al-Ix with a snapshot
\* in which Bo-Ix is online and the chat count of Al-Ix
Contents ==
    {EmptyObject,
     Field("master_roster", RosterOf(<<AlIx>>))
     @@ Field("stats", StatsOf(BoIx, OnlineOfficer)) @@ Field("data", ChatOf(AlIx, "Officer"))}

\* the batches of upload session "s1", of every phase and index
BatchBodies ==
    {RosterModeBody("full", phase, Some(index), session, None, None, content) :
        phase \in Phases, index \in 0..MaxBatchIndex, session \in {"s1"},
        content \in Contents}

\* the removal-guard flags a body may carry
Guards ==
    {EmptyObject,
     Field("confirm_removals", TRUE),
     Field("base_roster_hash", "h1"),
     Field("add_update_only", TRUE) @@ Field("confirm_removals", TRUE)}

\* unbatched delta and no_change requests of every phase: a roster naming
\* Al-Ix and Bo-Ix, the removal of "Al-Ix", or a roster naming Al-Ix with the
\* removal of {name: "Bo-Ix"}
RemovalBodies ==
    {RosterModeBody(mode, phase, None, NULL, roster, removed, guard) :
        mode \in {"delta", "no_change"}, phase \in {NULL} \cup Phases,
        roster \in {Some(RosterOf(<<AlIx, BoIx>>))}, removed \in {None}, guard \in Guards}
    \cup
    {RosterModeBody(mode, phase, None, NULL, roster, removed, guard) :
        mode \in {"delta", "no_change"}, phase \in {NULL} \cup Phases,
        roster \in {None}, removed \in {Some(<<RemovedString(AlIx)>>)}, guard \in Guards}
    \cup
    {RosterModeBody(mode, phase, None, NULL, roster, removed, guard) :
        mode \in {"delta", "no_change"}, phase \in {NULL} \cup Phases,
        roster \in {Some(RosterOf(<<AlIx>>))}, removed \in {Some(<<RemovedObject(BoIx)>>)},
        guard \in Guards}

\* heartbeats: roster_mode = no_change with nothing else, with a roster, with
\* removed_members, with a snapshot in which Bo-Ix is online (with and
\* without class and rank), or with the chat count and rank of Al-Ix
HeartbeatBodies ==
    {Field("roster_mode", "no_change") @@ rest :
        rest \in {EmptyObject,
                  Field("master_roster", RosterOf(<<BoIx>>)),
                  Field("removed_members", <<RemovedString(AlIx)>>) @@ Field("confirm_removals", TRUE),
                  Field("stats", StatsOf(BoIx, OnlineOfficer)),
                  Field("stats", StatsOf(BoIx, OnlineBare)),
                  Field("data", ChatOf(AlIx, "Officer")),
                  Field("data", ChatOf(AlIx, EmDash))}}

\* a body without roster_mode
LegacyBody(session, roster, final) ==
    OptStr("upload_session_id", session) @@ OptSeq("master_roster", roster)
    @@ Flag("is_final_batch", final)

\* "Cy-Ix", and the characters of a run's roster
CyIx == <<"C", "y", "-", "I", "x">>
Character(name, realmName, realmSlug) ==
    [name |-> name, realm |-> [name |-> realmName, slug |-> realmSlug]]
AlOfIx == Character(Al, Ix, <<"i", "x">>)
BoOfIx == Character(<<"B", "o">>, <<"I", "'", "x">>, <<"i", "x">>)
BoBySlug == Character(<<"b", "o">>, <<>>, <<"i", "x">>)
CyOfIx == Character(<<"C", "y">>, Ix, <<"i", "x">>)
ZedOfOz == Character(<<"Z", "e", "d">>, <<"O", "z">>, <<"o", "z">>)

\* the URL fetchRunDetailsWithRoster builds (raiderio.ts 293), with "r" for
\* the host and path up to the season and one token for id-level-slug
RunUrl(idLevelSlug) == <<"r", Slash, "s", Slash, idLevelSlug>>

\* a run with its roster, as fetchRunDetailsWithRoster returns it
RunOf(idLevelSlug, dungeon, level, completedAt, roster) ==
    [url |-> RunUrl(idLevelSlug), dungeon |-> dungeon, mythic_level |-> level,
     completed_at |-> completedAt, roster |-> roster]

\* upstream runs: two active guild members and a stranger; an active and an
\* inactive guild member; a single character; two active guild members
\* under other spellings of their names and realm
RunTwo == RunOf("101-12-ak", "Ara-Kara", 12, 1000, <<AlOfIx, ZedOfOz, BoOfIx>>)
RunInactive == RunOf("102-10-db", "Dawnbreaker", 10, 2000, <<AlOfIx, CyOfIx>>)
RunSolo == RunOf("103-9-ak", "Ara-Kara", 9, 3000, <<AlOfIx>>)
RunSlug == RunOf("104-8-sv", "Stonevault", 8, 4000, <<BoBySlug, AlOfIx>>)
Runs == {RunTwo, RunInactive, RunSolo, RunSlug}

\* what one player's sync passes to processGuildRuns
RunLists == {<<RunTwo>>, <<RunInactive, RunTwo>>, <<RunSolo, RunSlug>>}

\* an upstream run as a profile lists it (RaiderIORun, ApiRun); its
\* completed_at is the timestamp new Date(run.completed_at) gives, in whole
\* hours since the epoch
ApiRun(url, dungeon, level, completedAt, clearTimeMs, parTimeMs, score) ==
    [url |-> url, dungeon |-> dungeon, mythic_level |-> level,
     completed_at |-> completedAt, clear_time_ms |-> clearTimeMs,
     par_time_ms |-> parTimeMs, score |-> score]
\* a stored run as the deduplicator reads it (ExistingRun)
ExistingRun(url, dungeon, keyLevel, timestamp) ==
    [url |-> url, dungeon |-> dungeon, keyLevel |-> keyLevel, timestamp |-> timestamp]

\* dungeon names "A-K" and "DB"
AK == <<"A", Dash, "K">>
DB == <<"D", "B">>

\* candidate runs of the deduplicator: without a URL (absent or empty) in
\* the first and the last hour of day 0, on day 1, at another level and in
\* another dungeon; with a URL on day 0 and on day 1
NoUrlEarly == ApiRun(NULL, AK, 7, 1, 500000, 600000, 100)
NoUrlLate == ApiRun("", AK, 7, 23, 500000, 600000, 100)
NoUrlNextDay == ApiRun(NULL, AK, 7, 25, 500000, 600000, 100)
NoUrlLevel == ApiRun(NULL, AK, 10, 1, 500000, 600000, 100)
NoUrlDungeon == ApiRun(NULL, DB, 7, 1, 500000, 600000, 100)
WithUrlOne == ApiRun("u1", AK, 7, 2, 500000, 600000, 100)
WithUrlTwo == ApiRun("u2", DB, 10, 30, 500000, 600000, 100)
WithUrlTwoAgain == ApiRun("u2", DB, 10, 31, 500000, 600000, 100)
DedupRuns ==
    {NoUrlEarly, NoUrlLate, NoUrlNextDay, NoUrlLevel, NoUrlDungeon,
     WithUrlOne, WithUrlTwo, WithUrlTwoAgain}

\* the stored runs a deduplicator is constructed from
DedupExistingLists ==
    {<<>>,
     <<ExistingRun(NULL, AK, 7, 5)>>,
     <<ExistingRun("u1", AK, 7, 5)>>,
     <<ExistingRun("u2", DB, 10, 30), ExistingRun(NULL, DB, 7, 26)>>}

\* the upstream runs of a player, one per day from day 0 on: in time at key
\* level 8, over time at 6, in time at 9, over time at 14, in time at 15 and
\* at 10; and a second run of day 0 in the dungeon and at the level of the
\* first, with another URL and a better score
RunDay0 == ApiRun("r1", AK, 8, 1, 500000, 600000, 100)
RunDay1 == ApiRun("r2", DB, 6, 25, 700000, 600000, 90)
RunDay2 == ApiRun("r3", AK, 9, 49, 600000, 600000, 110)
RunDay3 == ApiRun("r4", DB, 14, 73, 600001, 600000, 140)
RunDay4 == ApiRun("r5", AK, 15, 97, 500000, 600000, 150)
RunDay5 == ApiRun("r6", DB, 10, 121, 500000, 600000, 120)
RunDay0Again == ApiRun("r7", AK, 8, 5, 650000, 600000, 105)

\* what the upstream service returns for a player: recent and best runs
Profile(recent, best) == [recent |-> recent, best |-> best]
UpstreamNone == Profile(<<>>, <<>>)
UpstreamTwo == Profile(<<RunDay1, RunDay0>>, <<RunDay0>>)
UpstreamSameDay == Profile(<<RunDay0, RunDay0Again>>, <<>>)
UpstreamSix == Profile(<<RunDay5, RunDay4, RunDay3>>, <<RunDay4, RunDay2, RunDay1, RunDay0>>)
Upstreams == {UpstreamNone, UpstreamTwo, UpstreamSameDay, UpstreamSix}
UpstreamRuns ==
    {upstream.recent[i] : i \in 1..Len(upstream.recent)}
        \cup {upstream.best[i] : i \in 1..Len(upstream.best)}

\* upstream profiles: complete (score 2500.4, item level 639.6), with a score
\* that rounds up, without a thumbnail URL, without spec and race, with empty
\* strings for them, and with nothing but the class
FullProfile ==
    [score |-> 25004, item_level_equipped |-> 6396, class |-> "Mage",
     active_spec_name |-> "Frost", race |-> "Human", thumbnail_url |-> "t.png"]
HigherProfile == [FullProfile EXCEPT !.score = 25005]
NoThumbnailProfile ==
    [score |-> 25004, item_level_equipped |-> 6396, class |-> "Mage",
     active_spec_name |-> "Frost", race |-> "Human"]
NoSpecRaceProfile ==
    [score |-> 25004, item_level_equipped |-> 6396, class |-> "Mage",
     thumbnail_url |-> "t.png"]
EmptyStringsProfile ==
    [FullProfile EXCEPT !.active_spec_name = "", !.race = "", !.thumbnail_url = ""]
BareProfile == [class |-> "Mage"]
UpstreamProfiles ==
    {FullProfile, HigherProfile, NoThumbnailProfile, NoSpecRaceProfile,
     EmptyStringsProfile, BareProfile}

\* the ids of Al-Ix and Bo-Ix
AlId == <<Al, Ix>>
BoId == <<<<"B", "o">>, Ix>>

\* the roster after a legacy session that named Al-Ix and Bo-Ix but not the
\* earlier member Cy-Ix
GuildRoster ==
    upsertRoster(markAllPlayersInactive(upsertRoster({}, RosterOf(<<CyIx>>), Ix)),
                 RosterOf(<<AlIx, BoIx>>), Ix)

\* ---------------------------------------------- raiderio.ts: batch rotation

\* A roster larger than one batch is kept by the hour of lastRioSync alone:
\* roster[h] active players were last synced in hour h, and hour Never holds
\* the players whose lastRioSync is null (`a.lastRioSync?.getTime() || 0`).
\* Timestamps are whole hours, so that two players are "synced within the same
\* hour" (447-451) exactly when their hours are equal.
Hours == 0..MaxHours
Never == 0

\* the number of players that getPlayersToSync sorts before those of hour h:
\* the comparator orders two players of different hours by hour (453) and two
\* of the same hour at random (449-451), so the array holds the hours in
\* ascending order and the players of one hour in any order
RECURSIVE SortedBefore(_, _)
SortedBefore(roster, h) ==
    IF h = 0 THEN 0 ELSE SortedBefore(roster, h - 1) + roster[h - 1]

\* allPlayers.length
RosterSize(roster) == SortedBefore(roster, MaxHours + 1)

\* Math.ceil(n / d)
Ceil(n, d) == (n + d - 1) \div d

\* the number of players of hour h in allPlayers.slice(startIdx, endIdx)
SliceCount(roster, h, startIdx, endIdx) ==
    LET from == Max(SortedBefore(roster, h), startIdx)
        to == IF SortedBefore(roster, h + 1) <= endIdx
              THEN SortedBefore(roster, h + 1) ELSE endIdx
    IN  IF to > from THEN to - from ELSE 0

\* the sum of count[h] over the hours h of S
RECURSIVE Total(_, _)
Total(count, S) ==
    IF S = {} THEN 0
    ELSE LET h == CHOOSE x \in S : TRUE IN count[h] + Total(count, S \ {h})

\* syncState.currentBatch after lines 557-561 of the next call of syncNextBatch
nextBatch ==
    IF currentBatch + 1 > Ceil(RosterSize(rosterSyncs), BATCH_SIZE)
    THEN 1 ELSE currentBatch + 1

\* the batch that the next call of syncNextBatch selects (563-564): the
\* number of players of each hour in it
nextSelection ==
    [h \in Hours |-> SliceCount(rosterSyncs, h, (nextBatch - 1) * BATCH_SIZE,
                                (nextBatch - 1) * BATCH_SIZE + BATCH_SIZE)]

\* a whole call of syncNextBatch on a roster larger than one batch, with
\* results[h] what syncPlayer returns for the selected players of hour h:
\* the guard (537-545), the cache refresh (551), the batch number and the
\* slice (554-564), the loop
\* with its counters (570-586), syncPlayer writing lastRioSync = new Date()
\* for the players it returns "updated" (369) or "skipped" (355) for and
\* nothing for those it returns "failed" for, and the release of the guard
\* (596-598)
syncNextBatchOfRoster(results) ==
    /\ ~isRunning
    /\ guildPlayerCache' = refreshGuildPlayerCache(players)
    /\ LET selected == nextSelection
           hoursWith(result) == {h \in DOMAIN results : results[h] = result}
           synced == Total(selected, hoursWith("updated") \cup hoursWith("skipped"))
       IN  /\ syncState.playersUpdated + syncState.playersSkipped
                + syncState.playersFailed + Total(selected, Hours) <= MaxSynced
           /\ currentBatch' = nextBatch
           /\ batchTaken' = [h \in Hours |->
                                [selected |-> selected[h],
                                 left |-> rosterSyncs[h] - selected[h]]]
           /\ rosterSyncs' = [h \in Hours |->
                                 (IF h \in hoursWith("failed")
                                  THEN rosterSyncs[h] ELSE rosterSyncs[h] - selected[h])
                                 + (IF h = clock THEN synced ELSE 0)]
           /\ syncState' = [syncState EXCEPT
                               !.playersUpdated = @ + Total(selected, hoursWith("updated")),
                               !.playersSkipped = @ + Total(selected, hoursWith("skipped")),
                               !.playersFailed = @ + Total(selected, hoursWith("failed"))]
    /\ UNCHANGED <<clock, isRunning, mythicRuns, playerStats, upstream, sync,
                   countedLevels, schedVars, players, guildSettings, uploaderStatuses,
                   activitySnapshots, req, res, accepted, guildMythicRuns,
                   activityEvents, guildRunsFound, pass, dedupVars, wclVars>>

\* an hour of the wall clock passes
HourPasses ==
    /\ clock < MaxHours
    /\ clock' = clock + 1
    /\ UNCHANGED <<rosterSyncs, currentBatch, batchTaken, isRunning, mythicRuns,
                   playerStats, upstream, sync, syncState, countedLevels, schedVars,
                   players, guildSettings, uploaderStatuses, activitySnapshots, req,
                   res, accepted, guildMythicRuns, activityEvents, guildPlayerCache,
                   guildRunsFound, pass, dedupVars, wclVars>>

\* ------------------------------------------------------------ specifications

InitUpload ==
    /\ players = {}
    /\ guildSettings = [realm |-> Ix,
                        uploadApiKey |-> ApiKey,
                        currentUploadSession |-> NULL,
                        uploadSessionStartedAt |-> NULL,
                        uploadSessionProcessedCount |-> 0,
                        lastUploadCompletedAt |-> NULL]
    /\ uploaderStatuses = EmptyObject
    /\ activitySnapshots = {}
    /\ req = [uploaderId |-> NULL, apiKey |-> NULL, body |-> EmptyObject]
    /\ res = Reply(0)
    /\ accepted = EmptyObject

InitGuild ==
    /\ guildMythicRuns = <<>>
    /\ activityEvents = <<>>
    /\ guildPlayerCache = EmptyObject
    /\ guildRunsFound = 0
    /\ isRunning = FALSE
    /\ pass = EmptyObject

\* raiderio.ts 83-95 and 776: no periodic sync started
InitPeriodic ==
    /\ syncIntervalId = 0
    /\ timers = {}
    /\ periodicActive = FALSE
    /\ nextSyncScheduled = NULL
    /\ callers = EmptyObject
\* no roster, currentBatch 0 (raiderio.ts 86)
InitRotation ==
    /\ rosterSyncs = EmptyObject
    /\ currentBatch = 0
    /\ clock = 0
    /\ batchTaken = EmptyObject

\* no sync call made, no deduplicator in use, no Warcraft Logs call made
InitIngest ==
    /\ mythicRuns = <<>>
    /\ playerStats = EmptyObject
    /\ upstream = <<>>
    /\ sync = EmptyObject
    /\ syncState = [playersUpdated |-> 0, playersSkipped |-> 0, playersFailed |-> 0]
    /\ countedLevels = EmptyObject
    /\ InitPeriodic /\ InitRotation
InitDedup ==
    /\ dedup = RunDeduplicator(<<>>)
    /\ dedupExisting = <<>>
    /\ dedupMarked = {}
InitWcl ==
    /\ wclIsRunning = FALSE
    /\ wclSyncIntervalId = FALSE
    /\ wclCalls = EmptyObject

Init == InitUpload /\ InitGuild /\ InitIngest /\ InitDedup /\ InitWcl

\* the tables when the sync passes of the guild-run model start
InitSync ==
    /\ players = GuildRoster
    /\ guildSettings = [realm |-> Ix,
                        uploadApiKey |-> ApiKey,
                        currentUploadSession |-> NULL,
                        uploadSessionStartedAt |-> NULL,
                        uploadSessionProcessedCount |-> 0,
                        lastUploadCompletedAt |-> NOW]
    /\ uploaderStatuses = EmptyObject
    /\ activitySnapshots = {}
    /\ req = [uploaderId |-> NULL, apiKey |-> NULL, body |-> EmptyObject]
    /\ res = Reply(0)
    /\ accepted = EmptyObject
    /\ InitGuild
    /\ InitIngest /\ InitDedup /\ InitWcl

\* a batched upload session driven by one agent, in any order of its batches
UploadBatch == \E body \in BatchBodies : Upload("legacy", ApiKey, Given(body))

\* a request without a key, or with a wrong key
UploadUnauthorised == \E key \in {NULL, "key-0"} : Upload("legacy", key, Given(EmptyObject))

NextBatch == UploadBatch \/ UploadUnauthorised
SpecBatch == Init /\ [][NextBatch]_vars

\* sync passes one after the other: a pass is entered when none is in flight
StartPassAlone ==
    \E p \in PassIds, kind \in Kinds, runs \in RunLists :
        /\ \A q \in PassIds : ~InFlight(q)
        /\ StartPass(p, kind, Given(runs))
Refresh == \E p \in PassIds : RefreshCache(p)
Next_Run == \E p \in PassIds : NextRun(p)
Lookup == \E p \in PassIds : LookupRun(p)
Create == \E p \in PassIds : CreateRun(p)
Event == \E p \in PassIds : CreateEvent(p)

NextGuild == StartPassAlone \/ Refresh \/ Next_Run \/ Lookup \/ Create \/ Event
SpecGuild == InitSync /\ [][NextGuild]_vars

\* sync passes entered at any time: at most one batch pass, any number of
\* single-player and deep passes
StartPassAnytime ==
    \E p \in PassIds, kind \in Kinds, runs \in RunLists : StartPass(p, kind, Given(runs))

NextGuildConcurrent == StartPassAnytime \/ Refresh \/ Next_Run \/ Lookup \/ Create \/ Event
SpecGuildConcurrent == InitSync /\ [][NextGuildConcurrent]_vars

\* roster-mode requests with removed_members and guard flags, among legacy
\* requests that open and close session "s2" with a roster naming Bo-Ix
UploadRosterMode == \E body \in RemovalBodies : Upload("legacy", ApiKey, Given(body))
UploadLegacySession ==
    \E final \in BOOLEAN :
        Upload("legacy", ApiKey, Given(LegacyBody("s2", Some(RosterOf(<<BoIx>>)), final)))

NextRemoval == UploadRosterMode \/ UploadLegacySession
SpecRemoval == Init /\ [][NextRemoval]_vars

\* heartbeats among unbatched delta uploads of the roster and legacy
\* sessions that leave Al-Ix inactive
UploadHeartbeat == \E body \in HeartbeatBodies : Upload("legacy", ApiKey, Given(body))
UploadRoster ==
    \E names \in {<<AlIx>>, <<AlIx, BoIx>>} :
        Upload("legacy", ApiKey,
               Given(RosterModeBody("delta", NULL, None, NULL, Some(RosterOf(names)), None,
                                    EmptyObject)))

NextHeartbeat == UploadHeartbeat \/ UploadRoster \/ UploadLegacySession
SpecHeartbeat == Init /\ [][NextHeartbeat]_vars

\* legacy batches of the sessions "s1" and "s2" and without a session id,
\* final or not, with a roster naming Al-Ix or Bo-Ix or none, with or without
\* a snapshot in which Bo-Ix is online
UploadLegacy ==
    \E session \in {NULL, "s1", "s2"}, final \in BOOLEAN,
       roster \in {None, Some(RosterOf(<<AlIx>>)), Some(RosterOf(<<BoIx>>))},
       extra \in {EmptyObject, Field("stats", StatsOf(BoIx, OnlineOfficer))} :
        Upload("legacy", ApiKey, Given(LegacyBody(session, roster, final) @@ extra))

NextLegacy == UploadLegacy
SpecLegacy == Init /\ [][NextLegacy]_vars

\* legacy batches of two uploader identities, "officer-1" with session "s1"
\* and "officer-2" with session "s2", in any order
UploadByOfficers ==
    \E u \in {1, 2}, final \in BOOLEAN,
       roster \in {None, Some(RosterOf(<<AlIx>>)), Some(RosterOf(<<BoIx>>))} :
        Upload(IF u = 1 THEN "officer-1" ELSE "officer-2", ApiKey,
               Given(LegacyBody(IF u = 1 THEN "s1" ELSE "s2", roster, final)))

NextUploaders == UploadByOfficers
SpecUploaders == Init /\ [][NextUploaders]_vars

\* a RunDeduplicator constructed from stored runs, then markAsSeen called
\* with any runs in any order
InitDeduplicator ==
    /\ InitUpload /\ InitGuild /\ InitIngest /\ InitWcl
    /\ dedupExisting \in DedupExistingLists
    /\ dedup = RunDeduplicator(dedupExisting)
    /\ dedupMarked = {}
MarkAsSeen ==
    \E run \in Given(DedupRuns) :
        /\ dedup' = markAsSeen(dedup, run)
        /\ dedupMarked' = dedupMarked \cup {run}
        /\ UNCHANGED <<dedupExisting, uploadVars, guildVars, ingestVars, wclVars>>
NextDedup == MarkAsSeen
SpecDedup == InitDeduplicator /\ [][NextDedup]_vars

\* the tables when run-ingesting sync calls start: the guild roster, no
\* stored run, every aggregate column at its default
InitRunsTables ==
    /\ players = GuildRoster
    /\ guildSettings = [realm |-> Ix,
                        uploadApiKey |-> ApiKey,
                        currentUploadSession |-> NULL,
                        uploadSessionStartedAt |-> NULL,
                        uploadSessionProcessedCount |-> 0,
                        lastUploadCompletedAt |-> NOW]
    /\ uploaderStatuses = EmptyObject
    /\ activitySnapshots = {}
    /\ req = [uploaderId |-> NULL, apiKey |-> NULL, body |-> EmptyObject]
    /\ res = Reply(0)
    /\ accepted = EmptyObject
    /\ InitGuild /\ InitDedup /\ InitWcl
    /\ mythicRuns = <<>>
    /\ playerStats = [id \in {PlayerId(p) : p \in GuildRoster} |-> NoStats]
    /\ sync = EmptyObject
    /\ syncState = [playersUpdated |-> 0, playersSkipped |-> 0, playersFailed |-> 0]
    /\ countedLevels = [id \in {PlayerId(p) : p \in GuildRoster} |-> {}]
    /\ InitPeriodic
InitRuns == InitRunsTables /\ InitRotation

Refresh_Sync == \E c \in SyncIds : RefreshSync(c)
Fetch_Profile == \E c \in SyncIds : Fetch(c)
Update_Profile == \E c \in SyncIds : Update(c)
Existing_Runs == \E c \in SyncIds : Existing(c)
Upsert_Run == \E c \in SyncIds : Upsert(c)
Stats_Read == \E c \in SyncIds : StatsRead(c)
Stats_Write == \E c \in SyncIds : StatsWrite(c)
Prune_Runs == \E c \in SyncIds : Prune(c)
Persist_Fails == \E c \in SyncIds : PersistFails(c)
SyncSteps ==
    \/ Refresh_Sync \/ Fetch_Profile \/ Update_Profile \/ Existing_Runs
    \/ Upsert_Run \/ Stats_Read \/ Stats_Write \/ Prune_Runs

\* calls are numbered in the order they are made
NextSyncId == Cardinality(DOMAIN sync) + 1

\* sync calls for Al-Ix one after the other (a batch call syncs Bo-Ix too),
\* the upstream service returning the same runs to each
InitIngestRuns == InitRuns /\ upstream \in Upstreams
StartSyncAlone ==
    \E c \in SyncIds, kind \in {"batch", "single", "deep"} :
        /\ c = NextSyncId
        /\ \A d \in SyncIds : ~SyncInFlight(d)
        /\ StartSync(c, kind, AlId)
        /\ UNCHANGED schedVars
NextIngest == StartSyncAlone \/ SyncSteps
SpecIngest == InitIngestRuns /\ [][NextIngest]_vars

\* a periodic batch call and on-demand single-player syncs of Al-Ix, started
\* at any time
InitIngestTwo == InitRuns /\ upstream = UpstreamTwo
StartSyncAnytime ==
    \E c \in SyncIds, kind \in {"batch", "single"} :
        c = NextSyncId /\ StartSync(c, kind, AlId) /\ UNCHANGED schedVars
NextIngestConcurrent == StartSyncAnytime \/ SyncSteps
SpecIngestConcurrent == InitIngestTwo /\ [][NextIngestConcurrent]_vars

\* batch calls (syncNextBatch, startRaiderIOSync) arriving at any time, with
\* persistence calls that may reject
StartBatchAnytime ==
    \E c \in SyncIds, kind \in {"batch", "cycle"} :
        c = NextSyncId /\ StartSync(c, kind, AlId) /\ UNCHANGED schedVars
NextBatchSync == StartBatchAnytime \/ SyncSteps \/ Persist_Fails
SpecBatchSync == InitIngestTwo /\ [][NextBatchSync]_vars

\* the periodic sync started and stopped at any time, its interval firing,
\* for players whose upstream profiles list no run, with a cache refresh that
\* may reject; the steps of a call in flight are taken eventually
InitPeriodicSync == InitRuns /\ upstream = UpstreamNone
Start_Periodic_Sync == \E c \in SyncIds : c = NextSyncId /\ startPeriodicSync(c)
Periodic_Tick == \E c \in SyncIds : c = NextSyncId /\ PeriodicTick(c)
Settle_Call == \E c \in SyncIds : Settle(c)
Refresh_Fails == \E c \in SyncIds : RefreshFails(c)
CallSteps == Refresh_Sync \/ Fetch_Profile \/ Update_Profile \/ Settle_Call
NextPeriodic ==
    \/ Start_Periodic_Sync \/ Periodic_Tick \/ stopPeriodicSync
    \/ CallSteps \/ Refresh_Fails
SpecPeriodic == InitPeriodicSync /\ [][NextPeriodic]_vars /\ WF_vars(CallSteps)

\* calls of syncNextBatch one after the other on a roster of more than
\* BATCH_SIZE active players, hours passing between them or not: the server
\* starts (currentBatch 0) with players never synced and players synced in
\* the last two hours, and syncPlayer updates, skips or fails
RosterCounts == {0, 1, BATCH_SIZE}
InitRosterRotation ==
    /\ InitRunsTables /\ upstream = UpstreamNone
    /\ clock = 2
    /\ currentBatch = 0
    /\ \E never, before, now \in RosterCounts :
        /\ never + before + now > BATCH_SIZE
        /\ rosterSyncs = [h \in Hours |-> IF h = Never THEN never
                                          ELSE IF h = 1 THEN before
                                          ELSE IF h = 2 THEN now ELSE 0]
    /\ batchTaken = [h \in Hours |-> [selected |-> 0, left |-> 0]]
Sync_Next_Batch ==
    \E results \in [{h \in Hours : nextSelection[h] > 0}
                        -> {"updated", "skipped", "failed"}] :
        syncNextBatchOfRoster(results)
NextRotation == Sync_Next_Batch \/ HourPasses
SpecRotation == InitRosterRotation /\ [][NextRotation]_vars

\* single-player syncs of Al-Ix and Bo-Ix one after the other, the upstream
\* profile changing between them or not; the players rows carry the columns
\* the comparison reads
ProfileColumns(row) ==
    [mythicScore |-> row.mythicScore, itemLevel |-> row.itemLevel, class |-> row.class,
     spec |-> row.spec, race |-> row.race, avatarUrl |-> NULL]
InitProfileSync ==
    /\ players = GuildRoster
    /\ guildSettings = [realm |-> Ix,
                        uploadApiKey |-> ApiKey,
                        currentUploadSession |-> NULL,
                        uploadSessionStartedAt |-> NULL,
                        uploadSessionProcessedCount |-> 0,
                        lastUploadCompletedAt |-> NOW]
    /\ uploaderStatuses = EmptyObject
    /\ activitySnapshots = {}
    /\ req = [uploaderId |-> NULL, apiKey |-> NULL, body |-> EmptyObject]
    /\ res = Reply(0)
    /\ accepted = EmptyObject
    /\ InitGuild /\ InitDedup /\ InitWcl
    /\ mythicRuns = <<>>
    /\ playerStats = [id \in {PlayerId(p) : p \in GuildRoster} |->
                        Merge(ProfileColumns(CHOOSE p \in GuildRoster : PlayerId(p) = id),
                              NoStats)]
    /\ upstream \in {Profile(<<>>, <<>>) @@ [profile |-> p] : p \in UpstreamProfiles}
    /\ sync = EmptyObject
    /\ syncState = [playersUpdated |-> 0, playersSkipped |-> 0, playersFailed |-> 0]
    /\ countedLevels = [id \in {PlayerId(p) : p \in GuildRoster} |-> {}]
    /\ InitPeriodic /\ InitRotation
Sync_Profile ==
    \E c \in SyncIds, id \in {AlId, BoId} : c = NextSyncId /\ SyncProfile(c, id)
UpstreamChanges ==
    /\ \E p \in UpstreamProfiles \ {upstream.profile} :
            upstream' = [upstream EXCEPT !.profile = p]
    /\ UNCHANGED <<mythicRuns, playerStats, sync, syncState>>
    /\ UNCHANGED <<uploadVars, guildVars, dedupVars, wclVars>>
    /\ UNCHANGED <<countedLevels, schedVars, rotationVars>>
NextProfileSync == Sync_Profile \/ UpstreamChanges
SpecProfileSync == InitProfileSync /\ [][NextProfileSync]_vars

\* the periodic Warcraft Logs sync started, stopped and started again, its
\* interval firing, in any order
InitWclSync == InitUpload /\ InitGuild /\ InitIngest /\ InitDedup /\ InitWcl
NextWclId == Cardinality(DOMAIN wclCalls) + 1
Start_Periodic == \E c \in WclIds : c = NextWclId /\ startPeriodicWCLSync(c)
Wcl_Tick == \E c \in WclIds : c = NextWclId /\ WclTick(c)
Wcl_Settings == \E c \in WclIds : WclSettings(c)
Wcl_Sync_Ends == \E c \in WclIds : WclSyncEnds(c)
NextWcl == Start_Periodic \/ Wcl_Tick \/ stopPeriodicWCLSync \/ Wcl_Settings \/ Wcl_Sync_Ends
SpecWcl == InitWclSync /\ [][NextWcl]_vars

\* ------------------------------------------------- reading a served request

\* the normalised fields of a request, and whether it passed the key check
FieldsOf(r) == UploadFields(addonUploadSchema(r.body))
Authorised(r) == r.apiKey = ApiKey
SessionOf(r) == FieldsOf(r).incomingSessionId
IsBatched(r) == Authorised(r) /\ isBatchedUpload(FieldsOf(r))

\* the (name, realm) pairs a request names in master_roster / removed_members
RosterNames(r) ==
    LET roster == masterRoster(addonUploadSchema(r.body))
    IN  {PlayerId(parsePlayerName(roster[i][1], Ix)) : i \in 1..Len(roster)}
RemovedNames(r) ==
    LET removed == FieldsOf(r).removedMembers
    IN  {PlayerId(parseRemovedMember(removed[i], Ix)) : i \in 1..Len(removed)}

\* the players named as online in a request's snapshots
OnlineNames(r) ==
    LET data == addonUploadSchema(r.body)
        stats == IF Has(data, "stats") THEN data.stats ELSE <<>>
    IN  UNION {{PlayerId(parsePlayerName(stats[i].online[j][1], Ix)) : j \in 1..Len(stats[i].online)} :
                  i \in 1..Len(stats)}

\* the online players a request reports with a class or a rank
OnlineWithClassOrRank(r) ==
    LET data == addonUploadSchema(r.body)
        stats == IF Has(data, "stats") THEN data.stats ELSE <<>>
    IN  UNION {{PlayerId(parsePlayerName(stats[i].online[j][1], Ix)) :
                   j \in {k \in 1..Len(stats[i].online) :
                             DOMAIN stats[i].online[k][2] \cap {"class", "rank"} # {}}} :
                  i \in 1..Len(stats)}

\* a legacy request, and one that opens a session: its session id differs
\* from the current one
IsLegacy(r) == Authorised(r) /\ FieldsOf(r).rosterMode = NULL
OpensSession(settings, r) ==
    SessionOf(r) # NULL /\ SessionOf(r) # getCurrentUploadSession(settings)

\* the removal guard as the request states it: removed_members non-empty,
\* add_update_only not set, and confirm_removals set or base_roster_hash
\* supplied
GuardDeclared(r) ==
    /\ FieldsOf(r).removedMembers # <<>>
    /\ ~(Has(r.body, "add_update_only") /\ r.body.add_update_only)
    /\ \/ Has(r.body, "confirm_removals") /\ r.body.confirm_removals
       \/ Has(r.body, "base_roster_hash")

ActiveIds(P) == {PlayerId(p) : p \in {q \in P : q.isActive}}
InactiveIds(P) == {PlayerId(p) : p \in {q \in P : ~q.isActive}}
\* the players a step turns from active to inactive
Deactivated(P, Q) == ActiveIds(P) \cap InactiveIds(Q)

\* the expected index of a batched request: 0 for a start batch, else the
\* uploader's last accepted index + 1
ExpectedIndex(A, T, r) ==
    LET f == FieldsOf(r)
        u == r.uploaderId
        restarted == f.incomingSessionId # NULL
                     /\ (u \notin DOMAIN T \/ f.incomingSessionId # T[u].lastSessionId)
    IN  IF f.sessionPhase = "start" \/ restarted THEN 0
        ELSE lastAcceptedIndex(A, u) + 1

\* ------------------------------------------------- reading the guild tables

\* whether a roster entry is an active player of the guild: the same name up
\* to case and the same realm up to case, apostrophes, dashes, spaces and
\* accents
ResolvesToActive(member) ==
    LET memberRealm == IF member.realm.name # <<>> THEN member.realm.name
                       ELSE member.realm.slug
    IN  \E q \in players :
            /\ q.isActive
            /\ toLowerCase(q.name) = toLowerCase(member.name)
            /\ normalizeRealm(q.realm) = normalizeRealm(memberRealm)

\* a run with at least 2 roster entries of which at least 2 resolve to
\* active guild players
IsGuildRun(run) ==
    /\ Len(run.roster) >= 2
    /\ Cardinality({i \in 1..Len(run.roster) : ResolvesToActive(run.roster[i])}) >= 2

\* the GuildMythicRun rows and the guild_mythic_run events of a run
RowsOf(run) ==
    {i \in 1..Len(guildMythicRuns) : guildMythicRuns[i].runKey = generateRunKey(run)}
EventsOf(run) ==
    {i \in 1..Len(activityEvents) :
        /\ activityEvents[i].type = "guild_mythic_run"
        /\ activityEvents[i].timestamp = run.completed_at
        /\ activityEvents[i].title = <<"Completed", run.dungeon, run.mythic_level>>}

\* pass p has been through run in processGuildRuns
Handled(p, run) ==
    /\ p \in DOMAIN pass
    /\ \E j \in 1..Len(pass[p].runs) : pass[p].runs[j] = run /\ j < pass[p].i

\* ---------------------------------------------------------------- claims

\* C1: a request that declares roster_mode turns a player from active to
\* inactive only if it is final-phase or has no session_phase and names the
\* player in removed_members; a start or chunk request, whatever
\* removed_members it carries, deactivates nobody and leaves isActive of
\* every player it does not name as it was.
C1_AbsenceNeverRemoves ==
    [][ (Authorised(req') /\ FieldsOf(req').rosterMode # NULL)
        => /\ \A id \in Deactivated(players, players') :
                  /\ FieldsOf(req').sessionPhase \in {NULL, "final"}
                  /\ id \in RemovedNames(req')
           /\ FieldsOf(req').sessionPhase \in {"start", "chunk"}
                  => \A p \in players :
                         PlayerId(p) \notin RosterNames(req') \cup OnlineNames(req')
                         => \E q \in players' : PlayerId(q) = PlayerId(p) /\ q.isActive = p.isActive
      ]_vars

\* C1 witness: a chunk batch that names only Al-Ix in its roster and lists
\* Bo-Ix in removed_members with confirm_removals was served, and Bo-Ix is
\* still active
C1_Witness ==
    /\ res.status = 200
    /\ FieldsOf(req).rosterMode = "delta"
    /\ FieldsOf(req).sessionPhase = "chunk"
    /\ Has(req.body, "confirm_removals")
    /\ RosterNames(req) = {<<Al, Ix>>}
    /\ RemovedNames(req) = {<<<<"B", "o">>, Ix>>}
    /\ <<<<"B", "o">>, Ix>> \in ActiveIds(players)

\* C2 (as claimed): a final-phase delta/full upload with confirm_removals =
\* true, add_update_only unset and a non-empty removed_members leaves every
\* listed player that was active inactive, and deactivates no player that
\* is not listed.
C2_ConfirmedRemovalsApplied ==
    [][ ( /\ Authorised(req')
          /\ FieldsOf(req').rosterMode \in {"delta", "full"}
          /\ FieldsOf(req').sessionPhase = "final"
          /\ Has(req'.body, "confirm_removals") /\ req'.body.confirm_removals
          /\ ~Has(req'.body, "add_update_only")
          /\ FieldsOf(req').removedMembers # <<>>
          /\ res'.status = 200 )
        => /\ RemovedNames(req') \cap ActiveIds(players) \subseteq InactiveIds(players')
           /\ Deactivated(players, players') \subseteq RemovedNames(req')
      ]_vars

\* C3 (as claimed): no upload deactivates a player unless its removal guard
\* passes.
C3_NoDeactivationWithoutGuard ==
    [][ (Authorised(req') /\ Deactivated(players, players') # {}) => GuardDeclared(req') ]_vars

\* C3 (amended): no upload that declares roster_mode deactivates a player
\* unless its removal guard passes; so a final-phase upload with
\* removed_members and neither confirm_removals nor base_roster_hash leaves
\* the listed players active, and one with add_update_only deactivates
\* nobody.
C3_NoRosterModeDeactivationWithoutGuard ==
    [][ (Authorised(req') /\ FieldsOf(req').rosterMode # NULL /\ Deactivated(players, players') # {})
        => GuardDeclared(req')
      ]_vars

\* C3 witness: a final-phase upload listing the active Al-Ix in
\* removed_members with neither flag was served, and Al-Ix is still active
C3_Witness ==
    /\ res.status = 200
    /\ FieldsOf(req).rosterMode = "delta"
    /\ FieldsOf(req).sessionPhase = "final"
    /\ RemovedNames(req) = {<<Al, Ix>>}
    /\ ~GuardDeclared(req)
    /\ DOMAIN req.body \cap {"confirm_removals", "base_roster_hash", "add_update_only"} = {}
    /\ <<Al, Ix>> \in ActiveIds(players)

\* C4 (as claimed): a batched delta/full upload whose batch_index differs
\* from the expected index (0 for a start batch, else the last accepted
\* index + 1) is answered 409, changes no player row (so no chat counter),
\* no snapshot and no session field, and leaves the uploader out_of_order
\* with the expected and the received index recorded, in the status row and
\* in the response.
C4_OutOfOrderRejected ==
    [][ (IsBatched(req') /\ FieldsOf(req').batchIndex[1] # ExpectedIndex(accepted, uploaderStatuses, req'))
        => LET u == req'.uploaderId
               e == ExpectedIndex(accepted, uploaderStatuses, req')
           IN  /\ res'.status = 409
               /\ res'.expectedBatchIndex = Some(e)
               /\ res'.receivedBatchIndex = FieldsOf(req').batchIndex
               /\ players' = players
               /\ activitySnapshots' = activitySnapshots
               /\ guildSettings' = guildSettings
               /\ uploaderStatuses'[u].status = "out_of_order"
               /\ uploaderStatuses'[u].expectedBatchIndex = Some(e)
               /\ uploaderStatuses'[u].lastError # None
               /\ uploaderStatuses'[u].lastError[1].expected = e
               /\ uploaderStatuses'[u].lastError[1].received = FieldsOf(req').batchIndex
      ]_vars

\* C5 (as claimed): after a batch is rejected with expected index e, the
\* same uploader's next request, in the same session, carrying batch_index e
\* in phase chunk or final, is accepted.
C5_ResendAccepted ==
    [][ ( /\ res.status = 409
          /\ req'.uploaderId = req.uploaderId
          /\ SessionOf(req') = SessionOf(req)
          /\ IsBatched(req')
          /\ FieldsOf(req').sessionPhase \in {"chunk", "final"}
          /\ FieldsOf(req').batchIndex = res.expectedBatchIndex )
        => res'.status = 200
      ]_vars

\* C6: a start batch with index 0 is accepted; a chunk or final batch that
\* follows an accepted start or chunk batch of the same uploader and session
\* with the next index is accepted; an accepted final batch that removes
\* nobody leaves the players of its own and of the preceding batch's roster
\* active, deactivates nobody, clears the upload session and leaves the
\* uploader idle.
C6_InOrderSessionAccepted ==
    [][ LET f == FieldsOf(req')
            u == req'.uploaderId
            follows == /\ IsBatched(req)
                       /\ res.status = 200
                       /\ FieldsOf(req).sessionPhase \in {"start", "chunk"}
                       /\ req'.uploaderId = req.uploaderId
                       /\ SessionOf(req') = SessionOf(req)
                       /\ f.sessionPhase \in {"chunk", "final"}
                       /\ f.batchIndex = Some(FieldsOf(req).batchIndex[1] + 1)
        IN  IsBatched(req') =>
            /\ (f.sessionPhase = "start" /\ f.batchIndex = Some(0)) => res'.status = 200
            /\ follows => res'.status = 200
            /\ (follows /\ f.sessionPhase = "final" /\ f.removedMembers = <<>>) =>
                   /\ RosterNames(req) \cup RosterNames(req') \subseteq ActiveIds(players')
                   /\ Deactivated(players, players') = {}
                   /\ guildSettings'.currentUploadSession = NULL
                   /\ uploaderStatuses'[u].status = "idle"
      ]_vars

\* C6 witness: start(0) naming Al-Ix was accepted and final(1), with an empty
\* roster and no removals, has just been accepted
C6_Witness ==
    /\ res.status = 200
    /\ IsBatched(req)
    /\ FieldsOf(req).sessionPhase = "final"
    /\ FieldsOf(req).batchIndex = Some(1)
    /\ RosterNames(req) = {}
    /\ FieldsOf(req).removedMembers = <<>>
    /\ \E p \in players : p.name = Al /\ p.realm = Ix /\ p.isActive
    /\ guildSettings.currentUploadSession = NULL
    /\ uploaderStatuses[req.uploaderId].status = "idle"
    /\ uploaderStatuses[req.uploaderId].lastBatchIndex = Some(1)

\* C7 (as claimed): an upload with roster_mode = no_change creates no player
\* and changes no player's isActive, class, level or guild rank, whatever
\* else it carries.
C7_HeartbeatLeavesRoster ==
    [][ (Authorised(req') /\ FieldsOf(req').rosterMode = "no_change")
        => \A q \in players' :
               \E p \in players :
                   /\ PlayerId(p) = PlayerId(q)
                   /\ p.isActive = q.isActive
                   /\ p.class = q.class
                   /\ p.level = q.level
                   /\ p.guildRank = q.guildRank
      ]_vars

C9_ExactlyOncePerGuildRun ==
    \A run \in Runs :
        /\ ~IsGuildRun(run) => RowsOf(run) = {} /\ EventsOf(run) = {}
        /\ (IsGuildRun(run) /\ \E p \in PassIds : Handled(p, run))
               => Cardinality(RowsOf(run)) = 1 /\ Cardinality(EventsOf(run)) = 1
        /\ Cardinality(RowsOf(run)) <= 1 /\ Cardinality(EventsOf(run)) <= 1

\* C9 witness: two passes have ended after processing the same guild run,
\* the second one also a run of an active and an inactive member; the guild
\* run has one row and one event, the other run none
C9_Witness ==
    /\ \E p \in PassIds, q \in PassIds :
           /\ p # q
           /\ Handled(p, RunTwo) /\ pass[p].pc = "done"
           /\ Handled(q, RunTwo) /\ Handled(q, RunInactive) /\ pass[q].pc = "done"
    /\ IsGuildRun(RunTwo) /\ ~IsGuildRun(RunInactive)
    /\ Cardinality(RowsOf(RunTwo)) = 1
    /\ Cardinality(EventsOf(RunTwo)) = 1
    /\ RowsOf(RunInactive) = {}
    /\ guildRunsFound = 1

\* C10: under any interleaving of sync passes there is never more than one
\* GuildMythicRun and never more than one guild_mythic_run ActivityEvent for
\* a run key.
C10_AtMostOncePerRunKey ==
    \A run \in Runs :
        /\ Cardinality(RowsOf(run)) <= 1
        /\ Cardinality(EventsOf(run)) <= 1

\* C10 witness: two passes found the same guild run unrecorded; the insert
\* of one was rejected and ended that pass, the other created the row and
\* the event
C10_Witness ==
    \E p \in PassIds, q \in PassIds :
        /\ p # q
        /\ p \in DOMAIN pass /\ q \in DOMAIN pass
        /\ pass[p].pc = "thrown" /\ pass[p].runs[pass[p].i] = RunTwo
        /\ pass[q].pc = "done" /\ Handled(q, RunTwo)
        /\ Cardinality(RowsOf(RunTwo)) = 1
        /\ Cardinality(EventsOf(RunTwo)) = 1

\* the runs without a URL that a deduplicator knows: stored at construction
\* or marked seen
KnownWithoutUrl ==
    {[dungeon |-> dedupExisting[i].dungeon, level |-> dedupExisting[i].keyLevel,
      at |-> dedupExisting[i].timestamp] :
        i \in {j \in 1..Len(dedupExisting) : ~Truthy(dedupExisting[j].url)}}
    \cup {[dungeon |-> r.dungeon, level |-> r.mythic_level, at |-> r.completed_at] :
            r \in {m \in dedupMarked : ~Truthy(m.url)}}
\* two timestamps on the same UTC calendar day
SameUtcDay(a, b) == a \div 24 = b \div 24

\* the counters of a players row, and the stored runs of a player
LevelCounters == {"runsByLevelLow", "runsByLevelMid", "runsByLevelHigh", "runsByLevelElite"}
Counters ==
    LevelCounters \cup {"totalRunsTracked", "runsInTime", "runsOverTime", "highestKeyLevel"}
StoredRuns(M, playerId) == {M[i] : i \in RowsOfPlayer(M, playerId)}
\* call c takes the step that ends its stay at pc
Leaves(c, pc) == c \in DOMAIN sync /\ sync[c].pc = pc /\ sync'[c] # sync[c]

\* ------------------------------------------------------------------- C11

\* C11: one call of updatePlayerStats for a run adds exactly 1 to
\* totalRunsTracked, 1 to runsInTime if clearTimeMs <= parTimeMs and
\* otherwise 1 to runsOverTime, and 1 to exactly one level counter: low up
\* to key level 6, mid up to 9, high up to 14, elite above; from all-zero
\* counters the run with clearTimeMs 500000, parTimeMs 600000 and key level 8
\* gives totalRunsTracked 1, runsInTime 1 and runsByLevelMid 1.
C11_OneCallCountsOneRun ==
    [][\A c \in SyncIds :
        Leaves(c, "statsWrite") =>
            LET f == sync[c]
                run == f.runs[f.i]
                old == playerStats[CurrentPlayer(f)]
                new == playerStats'[CurrentPlayer(f)]
                inTime == run.clear_time_ms <= run.par_time_ms
                level == run.mythic_level
                counter == IF level <= 6 THEN "runsByLevelLow"
                           ELSE IF level <= 9 THEN "runsByLevelMid"
                           ELSE IF level <= 14 THEN "runsByLevelHigh"
                           ELSE "runsByLevelElite"
            IN  /\ new.totalRunsTracked = old.totalRunsTracked + 1
                /\ new.runsInTime = old.runsInTime + (IF inTime THEN 1 ELSE 0)
                /\ new.runsOverTime = old.runsOverTime + (IF inTime THEN 0 ELSE 1)
                /\ \A k \in LevelCounters : new[k] = old[k] + (IF k = counter THEN 1 ELSE 0)
                /\ (/\ \A k \in Counters : old[k] = 0
                    /\ run.clear_time_ms = 500000 /\ run.par_time_ms = 600000 /\ level = 8)
                      => /\ new.totalRunsTracked = 1
                         /\ new.runsInTime = 1
                         /\ new.runsByLevelMid = 1]_vars

\* the run of the example was counted for Al-Ix, whose counters were zero
C11_Witness ==
    /\ upstream = UpstreamSameDay
    /\ \E c \in DOMAIN sync : sync[c].pc = "upsert" /\ sync[c].i = 2
    /\ playerStats[AlId].totalRunsTracked = 1
    /\ playerStats[AlId].runsInTime = 1
    /\ playerStats[AlId].runsByLevelMid = 1
    /\ playerStats[AlId].runsOverTime = 0
    /\ playerStats[AlId].highestKeyLevel = 8

\* ------------------------------------------------------------------- C12

\* C12: while the upstream service returns the same runs to every sync call
\* for a player, each upstream run adds to the player's totalRunsTracked at
\* most once: the total never exceeds the number of upstream runs.
C12_EachRunCountedOnce ==
    \A id \in DOMAIN playerStats :
        playerStats[id].totalRunsTracked <= Cardinality(UpstreamRuns)

\* ------------------------------------------------------------------- C13

\* C13: no counter of a player (totalRunsTracked, runsInTime, runsOverTime,
\* the four level counters, highestKeyLevel) ever decreases, whatever sync
\* calls for the player run at the same time.
C13_CountersNeverDecrease ==
    [][\A id \in DOMAIN playerStats :
        \A k \in Counters : playerStats'[id][k] >= playerStats[id][k]]_vars

\* ------------------------------------------------------------------- C14

\* C14: when a sync call prunes the runs of a player after ingesting, the
\* player is left with at most 5 stored runs, all of them stored before the
\* pruning and none older than a run that was deleted; and when no call is in
\* flight no player has more than 5 stored runs.
C14_LatestFiveKept ==
    [][/\ \A c \in SyncIds :
            Leaves(c, "prune") =>
                LET before == StoredRuns(mythicRuns, CurrentPlayer(sync[c]))
                    after == StoredRuns(mythicRuns', CurrentPlayer(sync[c]))
                IN  /\ after \subseteq before
                    /\ Cardinality(after) = IF Cardinality(before) < 5
                                            THEN Cardinality(before) ELSE 5
                    /\ \A kept \in after : \A deleted \in before \ after :
                            kept.timestamp >= deleted.timestamp
       /\ (\A c \in SyncIds : ~SyncInFlight(c)')
            => \A id \in DOMAIN playerStats' :
                    Cardinality(RowsOfPlayer(mythicRuns', id)) <= 5]_vars

\* a deep sync of Al-Ix ingested six runs and has returned: the five latest
\* are stored, the run of day 0 is not
C14_Witness ==
    /\ upstream = UpstreamSix
    /\ \E c \in DOMAIN sync : sync[c].kind = "deep" /\ sync[c].pc = "done"
    /\ {r.url : r \in StoredRuns(mythicRuns, AlId)} = {"r2", "r3", "r4", "r5", "r6"}
    /\ playerStats[AlId].totalRunsTracked = 6

\* ------------------------------------------------------------------- C15

\* C15: a run with a non-empty URL that markAsSeen was called with is not a
\* new run for that deduplicator, whatever it was constructed from and
\* whatever else was marked since.
C15_MarkedUrlNotNew ==
    \A run \in dedupMarked : Truthy(run.url) => ~isNewRun(dedup, run)

\* a run with a URL was marked on a deduplicator constructed from stored
\* runs, and other runs were marked as well
C15_Witness ==
    /\ dedupExisting # <<>>
    /\ WithUrlOne \in dedupMarked
    /\ NoUrlLate \in dedupMarked /\ WithUrlTwo \in dedupMarked
    /\ ~isNewRun(dedup, WithUrlOne)

\* ------------------------------------------------------------------- C16

\* C16: a run without a URL is not new exactly when the deduplicator knows
\* (from construction or from markAsSeen) a run without a URL of the same
\* dungeon, the same key level and the same UTC day, at any time of that day;
\* runs on other days, of other dungeons or of other levels do not make it
\* known.
C16_SameDungeonLevelDayIsSameRun ==
    \A run \in DedupRuns :
        ~Truthy(run.url) =>
            (~isNewRun(dedup, run)
                <=> \E k \in KnownWithoutUrl : /\ k.dungeon = run.dungeon
                                               /\ k.level = run.mythic_level
                                               /\ SameUtcDay(k.at, run.completed_at))

\* only the early run of day 0 was marked: the late run of that day is not
\* new, the runs of the next day, of another level and of another dungeon are
C16_Witness ==
    /\ dedupExisting = <<>>
    /\ dedupMarked = {NoUrlEarly}
    /\ ~isNewRun(dedup, NoUrlLate)
    /\ isNewRun(dedup, NoUrlNextDay)
    /\ isNewRun(dedup, NoUrlLevel)
    /\ isNewRun(dedup, NoUrlDungeon)

\* ------------------------------------------------------------------- C17

\* C17: for a run with a URL, isNewRun is true exactly when the URL is not
\* in the set of seen URLs, whatever composite keys the deduplicator holds.
C17_UrlAloneDecides ==
    \A run \in DedupRuns :
        Truthy(run.url) => (isNewRun(dedup, run) <=> run.url \notin dedup.urlSet)

\* ------------------------------------------------------------------- C18

\* the batch calls (syncNextBatch, startRaiderIOSync) that are executing
BatchCallsInFlight(S) ==
    {c \in DOMAIN S : IsBatchKind(S[c].kind) /\ S[c].pc \notin {"done", "thrown", "returned"}}

\* C18: at most one batch call is executing at any time; a batch call that
\* arrives while isRunning is set returns at once, having synced no player
\* and changed no table, and a call that has returned so never runs later.
C18_BatchPassesNeverOverlap ==
    [][/\ Cardinality(BatchCallsInFlight(sync')) <= 1
       /\ \A c \in SyncIds :
            /\ (c \notin DOMAIN sync /\ c \in DOMAIN sync' /\ isRunning)
                 => /\ sync'[c].pc = "returned"
                    /\ sync'[c].results = <<>>
                    /\ UNCHANGED <<mythicRuns, playerStats, syncState>>
            /\ (c \in DOMAIN sync /\ sync[c].pc = "returned") => sync'[c] = sync[c]]_vars

\* a batch call is ingesting runs and another batch call has returned at once
C18_Witness ==
    \E c, d \in DOMAIN sync :
        /\ sync[c].kind = "batch" /\ sync[c].pc = "statsWrite"
        /\ sync[d].kind = "cycle" /\ sync[d].pc = "returned"
        /\ isRunning

\* ------------------------------------------------------------------- C19

\* C19: at most one call of runWCLSync is inside syncRaidProgress at any
\* time, and a call made while another is inside it returns null without
\* syncing.
C19_WclPassesNeverOverlap ==
    [][/\ Cardinality({c \in DOMAIN wclCalls' : wclCalls'[c] = "sync"}) <= 1
       /\ \A c \in WclIds :
            (/\ c \notin DOMAIN wclCalls /\ c \in DOMAIN wclCalls'
             /\ \E d \in DOMAIN wclCalls : wclCalls[d] = "sync")
                => wclCalls'[c] = "busy"]_vars

\* ------------------------------------------------------------------- C20

\* C20: a syncNextBatch call that has ended has a result for every player of
\* its batch, whatever failed for one of them, and the players that failed are
\* counted in playersFailed.
C20_FailureDoesNotAbortBatch ==
    \A c \in DOMAIN sync :
        (sync[c].kind = "batch" /\ sync[c].pc \in {"done", "thrown"})
            => /\ Len(sync[c].results) = Len(sync[c].players)
               /\ syncState.playersFailed
                    >= Cardinality({i \in 1..Len(sync[c].results) :
                                        sync[c].results[i] = "failed"})

\* ------------------------------------------------------------------- C21

\* call c has selected its batch of players and has not ended
HasBatchInFlight(c) ==
    IF c \in DOMAIN sync THEN SyncInFlight(c) /\ sync[c].pc # "refresh" ELSE FALSE

\* call c has ended with a result for every player of its batch
BatchCompleted(c) ==
    IF c \in DOMAIN sync
    THEN sync[c].pc = "done" /\ Len(sync[c].results) = Len(sync[c].players)
    ELSE FALSE

SessionState(settings) ==
    <<settings.currentUploadSession, settings.uploadSessionStartedAt,
      settings.uploadSessionProcessedCount>>

\* C22: a request of one uploader identity that follows a request of another
\* leaves the other's uploader row, the upload-session state (current session
\* id, started-at, processed count) and the players its session activated as
\* they were.
C22_UploadersDoNotInterfere ==
    [][(/\ Authorised(req) /\ Authorised(req')
        /\ req'.uploaderId # req.uploaderId)
          => /\ uploaderStatuses'[req.uploaderId] = uploaderStatuses[req.uploaderId]
             /\ SessionState(guildSettings') = SessionState(guildSettings)
             /\ ActiveIds(players) \subseteq ActiveIds(players')]_vars

\* ------------------------------------------------------------------- C23

\* C23: when a batch is rejected as out of order (409), the lastBatchIndex
\* stored for the uploader afterwards is the index of the last batch that was
\* accepted in its session (-1 when none was), never the index of the
\* rejected batch.
C23_RejectionKeepsLastAccepted ==
    [][res'.status = 409 =>
        uploaderStatuses'[req'.uploaderId].lastBatchIndex
            = Some(lastAcceptedIndex(accepted', req'.uploaderId))]_vars

\* ------------------------------------------------------------------- C24

\* C24: whenever the upstream profile of a player was found and lists runs,
\* the sync call goes on to ingest them (deduplicator, upsert, statistics,
\* pruning), whether the compared profile fields changed or not; it does not
\* return for the player before.
C24_RunsIngestedWhateverChanged ==
    [][\A c \in SyncIds :
        (Leaves(c, "update") /\ allRunsOf(sync[c].kind, upstream) # <<>>)
            => /\ sync'[c].pc = "existing"
               /\ sync'[c].runs = allRunsOf(sync[c].kind, upstream)
               /\ sync'[c].results = sync[c].results]_vars

\* ------------------------------------------------------------------- C25

\* C25: when a player is synced twice in succession and the upstream service
\* returns the same profile both times, the second sync returns "skipped" and
\* changes no column of the player but lastRioSync, whatever keys the profile
\* carries.
C25_SecondSyncSkipped ==
    [][\A c \in SyncIds :
        (/\ c \in DOMAIN sync /\ c + 1 \notin DOMAIN sync /\ c + 1 \in DOMAIN sync'
         /\ sync'[c + 1].players = sync[c].players
         /\ sync[c].results # <<"failed">> /\ sync'[c + 1].results # <<"failed">>
         /\ sync'[c + 1].profile = sync[c].profile)
            => LET id == sync[c].players[1]
               IN  /\ sync'[c + 1].results = <<"skipped">>
                   /\ \A k \in DOMAIN playerStats[id] \ {"lastRioSync"} :
                        playerStats'[id][k] = playerStats[id][k]]_vars

\* ------------------------------------------------------------------- C26

\* a player last synced in hour u is more than one hour older than one last
\* synced in hour t, or was never synced while the other was
OlderByMoreThanAnHour(u, t) ==
    IF u = Never THEN t # Never ELSE t # Never /\ t - u > 1

\* C26: on a roster larger than one batch, the batch that syncNextBatch
\* selected holds no player of an hour t while it left out a player that is
\* more than one hour older or was never synced.
C26_OldestPlayersFirst ==
    \A t, u \in DOMAIN batchTaken :
        (batchTaken[t].selected > 0 /\ batchTaken[u].left > 0)
            => ~OlderByMoreThanAnHour(u, t)

\* ------------------------------------------------------------------- C27

\* C27: whenever no batch call (syncNextBatch, startRaiderIOSync) is
\* executing, isRunning is false: every batch call that has ended, completed
\* or thrown at any step, has released the guard.
C27_GuardAlwaysReleased ==
    BatchCallsInFlight(sync) = {} => ~isRunning

\* ------------------------------------------------------------------- C28

\* C28: re-sending a legacy batch that was just processed (answered 200) - in
\* particular the final batch of a session, with the same upload_session_id -
\* leaves the isActive of every player as the first processing left it.
C28_LegacyResendKeepsRoster ==
    [][(/\ IsLegacy(req) /\ res.status = 200
        /\ req' = req)
          => /\ ActiveIds(players') = ActiveIds(players)
             /\ InactiveIds(players') = InactiveIds(players)]_vars

\* ------------------------------------------------------------------- C29

\* the greatest of a non-empty set of numbers
Greatest(S) == CHOOSE m \in S : \A n \in S : n <= m

\* C29: while the calls of updatePlayerStats for a player do not overlap, the
\* counters of the player, zero at the start, satisfy totalRunsTracked =
\* runsInTime + runsOverTime = runsByLevelLow + runsByLevelMid +
\* runsByLevelHigh + runsByLevelElite, and highestKeyLevel is the greatest key
\* level of the runs counted (0 when none was).
C29_CountersAgree ==
    \A id \in DOMAIN playerStats :
        LET row == playerStats[id]
        IN  /\ row.totalRunsTracked = row.runsInTime + row.runsOverTime
            /\ row.totalRunsTracked = row.runsByLevelLow + row.runsByLevelMid
                                        + row.runsByLevelHigh + row.runsByLevelElite
            /\ row.highestKeyLevel = Greatest(countedLevels[id] \cup {0})

\* six runs of every level bracket, in time and over time, were counted for
\* Al-Ix by a deep sync, the run of level 15 neither first nor last
C29_Witness ==
    /\ upstream = UpstreamSix
    /\ \E c \in DOMAIN sync : sync[c].kind = "deep" /\ sync[c].pc = "done"
    /\ countedLevels[AlId] = {6, 8, 9, 10, 14, 15}
    /\ playerStats[AlId].totalRunsTracked = 6
    /\ playerStats[AlId].runsInTime = 4 /\ playerStats[AlId].runsOverTime = 2
    /\ playerStats[AlId].runsByLevelLow = 1 /\ playerStats[AlId].runsByLevelMid = 2
    /\ playerStats[AlId].runsByLevelHigh = 2 /\ playerStats[AlId].runsByLevelElite = 1
    /\ playerStats[AlId].highestKeyLevel = 15

\* ------------------------------------------------------------------- C30

\* C30: periodicActive is true exactly when an interval timer is installed,
\* and while periodicActive is false nextSyncScheduled is null.
C30_ActiveIffTimerAndScheduled ==
    /\ periodicActive <=> (syncIntervalId # 0 /\ timers # {})
    /\ ~periodicActive => nextSyncScheduled = NULL

====
